---- MODULE Spec2Model ----
(***************************************************************************)
(* Rule engine of the checkers/draughts program: Board (move generation,   *)
(* move cache, make/unmake with incremental Zobrist hash, game-over test), *)
(* Game (makeMove / undoMove with move history) and the session's          *)
(* make_move entry point.                                                  *)
(*                                                                         *)
(* Python objects are modelled as a heap: `pieces` maps an object handle   *)
(* to the fields of the Piece object; board squares, undo records and move *)
(* records hold handles.  Objects nothing refers to any more are dropped   *)
(* (reference counting), and a new object takes the smallest free handle.  *)
(*                                                                         *)
(* A 64-bit Zobrist value is modelled as the set of keys whose XOR it is:  *)
(* XOR is symmetric difference.  Two values that are equal as sets are     *)
(* equal as integers.                                                      *)
(***************************************************************************)
EXTENDS Integers, Sequences, FiniteSets, TLC

WHITE == "white"
BLACK == "black"
Colors == {WHITE, BLACK}
NoColor == "none"
NoPiece == 0

(* ---------------- bounds of the model ---------------- *)
MaxPly == 2
MovesCacheMax == 1
MaxUndo == 2
GameCacheMax == 3

(* ---------------- small helpers ---------------- *)
Range(s) == {s[i] : i \in DOMAIN s}

RECURSIVE ConcatAll(_)
ConcatAll(ss) ==
    IF ss = <<>> THEN <<>> ELSE Head(ss) \o ConcatAll(Tail(ss))

MaxOf(S) == CHOOSE x \in S : \A y \in S : y <= x

MinOf(S) == CHOOSE x \in S : \A y \in S : x <= y

Xor(a, b) == (a \ b) \cup (b \ a)

\* G applied to the value of v: v is computed once, whatever the number of
\* places G uses it in (a local variable of the program)
With(v, G(_)) == CHOOSE r \in {G(x) : x \in {v}} : TRUE

(* ---------------- core/move.py ---------------- *)
Move(start, steps, captures) ==
    [start |-> start, steps |-> steps, captures |-> captures]

end(move) ==
    IF move.steps # <<>> THEN move.steps[Len(move.steps)] ELSE move.start

is_capture(move) == move.captures # <<>>

(* ---------------- core/pieces.py ---------------- *)
Piece(color, row, col, is_king, identifier) ==
    [color |-> color, row |-> row, col |-> col, is_king |-> is_king, id |-> identifier]

position(p) == <<p.row, p.col>>

directions == << <<-1, -1>>, <<-1, 1>>, <<1, -1>>, <<1, 1>> >>

OtherColor(c) == IF c = WHITE THEN BLACK ELSE WHITE

(* ---------------- core/hash.py ---------------- *)
_piece_variant(p) ==
    <<p.color, IF p.is_king THEN "king" ELSE "man">>

_table_for_size(board_size, row, col, variant) ==
    {<<board_size, row, col, variant>>}

_TURN_KEYS(color) == {<<"turn", color>>}

zobrist_piece_key(board_size, row, col, p) ==
    _table_for_size(board_size, row, col, _piece_variant(p))

zobrist_turn_key(color) == _TURN_KEYS(color)

(* ---------------- core/board.py : reading the grid ---------------- *)
\* self.board is a list of rows, each a list of squares: row r, column c of
\* the program is bd.board[r + 1][c + 1] here (sequences count from 1)
_is_within_bounds(bd, row, col) ==
    0 <= row /\ row < bd.boardSize /\ 0 <= col /\ col < bd.boardSize

getPiece(bd, row, col) ==
    IF _is_within_bounds(bd, row, col) THEN bd.board[row + 1][col + 1] ELSE NoPiece

\* the loops `for row ...: for col ...:` of compute_board_hash, from (row, col) on
RECURSIVE compute_hash_row(_, _, _, _, _)
compute_hash_row(bd, ps, row, col, result) ==
    IF col >= bd.boardSize THEN result
    ELSE LET piece == bd.board[row + 1][col + 1]
         IN With(IF piece = NoPiece THEN result
                 ELSE Xor(result, _table_for_size(bd.boardSize, row, col,
                                                  _piece_variant(ps[piece]))),
                 LAMBDA xored : compute_hash_row(bd, ps, row, col + 1, xored))

RECURSIVE compute_hash_from(_, _, _, _)
compute_hash_from(bd, ps, row, result) ==
    IF row >= bd.boardSize THEN result
    ELSE With(compute_hash_row(bd, ps, row, 0, result),
              LAMBDA xored : compute_hash_from(bd, ps, row + 1, xored))

compute_board_hash(bd, ps) ==
    LET result == _TURN_KEYS(bd.turn)
    IN compute_hash_from(bd, ps, 0, result)

\* the squares the loops of getAllPieces find a piece on
occupied(bd) ==
    {sq \in (0 .. bd.boardSize - 1) \X (0 .. bd.boardSize - 1) :
        (sq[1] + sq[2]) % 2 = 1 /\ getPiece(bd, sq[1], sq[2]) # NoPiece}

\* the pieces on squares, in the order the loops visit them: row by row, and
\* within a row by column
in_loop_order(bd, squares) ==
    [i \in 1 .. Cardinality(squares) |->
        LET sq == CHOOSE at \in squares :
                      Cardinality({o \in squares : o[1] < at[1] \/ (o[1] = at[1] /\ o[2] < at[2])}) = i - 1
        IN getPiece(bd, sq[1], sq[2])]

getAllPieces(bd) == in_loop_order(bd, occupied(bd))

(* ---------------- core/pieces.py : Man.possibleMoves ---------------- *)
forward_dirs(color) ==
    IF color = WHITE THEN << <<-1, -1>>, <<-1, 1>> >> ELSE << <<1, -1>>, <<1, 1>> >>

\* a man capturing forwards only, whatever the size of the board
capture_dirs_forward(bd, color) == forward_dirs(color)

capture_dirs(bd, color) ==
    IF bd.boardSize = 8 THEN forward_dirs(color) ELSE directions

\* the one-step moves onto an empty square, one per direction in dirs
step_moves(bd, origin, row, col, dirs) ==
    ConcatAll([d \in 1..Len(dirs) |->
        LET new_r == row + dirs[d][1]
            new_c == col + dirs[d][2]
        IN IF _is_within_bounds(bd, new_r, new_c) /\ getPiece(bd, new_r, new_c) = NoPiece
           THEN << Move(origin, << <<new_r, new_c>> >>, <<>>) >>
           ELSE <<>>])

\* the jump test without the test that the square behind the piece is empty
can_jump_onto_any(bd, ps, color, r, c, dr, dc, captured) ==
    /\ _is_within_bounds(bd, r + 2 * dr, c + 2 * dc)
    /\ getPiece(bd, r + dr, c + dc) # NoPiece
    /\ ps[getPiece(bd, r + dr, c + dc)].color # color
    /\ <<r + dr, c + dc>> \notin Range(captured)

\* the jump test shared by dfs_captures and dfs_english; visited is the set
\* of the squares in captured
can_jump(bd, ps, color, r, c, dr, dc, captured) ==
    /\ _is_within_bounds(bd, r + 2 * dr, c + 2 * dc)
    /\ getPiece(bd, r + dr, c + dc) # NoPiece
    /\ ps[getPiece(bd, r + dr, c + dc)].color # color
    /\ getPiece(bd, r + 2 * dr, c + 2 * dc) = NoPiece
    /\ <<r + dr, c + dc>> \notin Range(captured)

RECURSIVE dfs_captures(_, _, _, _, _, _, _, _, _)
dfs_captures(bd, ps, color, dirs, origin, r, c, path, captured) ==
    LET extended == \E d \in 1..Len(dirs) :
                        can_jump(bd, ps, color, r, c, dirs[d][1], dirs[d][2], captured)
    IN IF extended
       THEN ConcatAll([d \in 1..Len(dirs) |->
                LET end_r == r + 2 * dirs[d][1]
                    end_c == c + 2 * dirs[d][2]
                    path2 == Append(path, <<end_r, end_c>>)
                    captured2 == Append(captured, <<r + dirs[d][1], c + dirs[d][2]>>)
                IN IF can_jump(bd, ps, color, r, c, dirs[d][1], dirs[d][2], captured)
                   THEN dfs_captures(bd, ps, color, dirs, origin, end_r, end_c, path2, captured2)
                   ELSE <<>>])
       ELSE IF captured # <<>> THEN << Move(origin, path, captured) >> ELSE <<>>

Man_possibleMoves(bd, ps, self) ==
    LET p == ps[self]
        origin == position(p)
        moves == step_moves(bd, origin, p.row, p.col, forward_dirs(p.color))
    IN With(dfs_captures(bd, ps, p.color, capture_dirs(bd, p.color),
                         origin, p.row, p.col, <<>>, <<>>),
            LAMBDA capture_moves : IF capture_moves # <<>> THEN capture_moves ELSE moves)

(* ---------------- core/pieces.py : King.possibleMoves ---------------- *)
RECURSIVE dfs_english(_, _, _, _, _, _, _, _)
dfs_english(bd, ps, color, origin, r, c, path, captured) ==
    LET extended == \E d \in 1..4 :
                        can_jump(bd, ps, color, r, c, directions[d][1], directions[d][2], captured)
    IN IF extended
       THEN ConcatAll([d \in 1..4 |->
                LET er == r + 2 * directions[d][1]
                    ec == c + 2 * directions[d][2]
                    path2 == Append(path, <<er, ec>>)
                    captured2 == Append(captured, <<r + directions[d][1], c + directions[d][2]>>)
                IN IF can_jump(bd, ps, color, r, c, directions[d][1], directions[d][2], captured)
                   THEN dfs_english(bd, ps, color, origin, er, ec, path2, captured2)
                   ELSE <<>>])
       ELSE IF captured # <<>> THEN << Move(origin, path, captured) >> ELSE <<>>

\* the empty squares from (r, c) onward in direction (dr, dc), nearest first
RECURSIVE empty_run(_, _, _, _, _)
empty_run(bd, r, c, dr, dc) ==
    IF _is_within_bounds(bd, r, c) /\ getPiece(bd, r, c) = NoPiece
    THEN << <<r, c>> >> \o empty_run(bd, r + dr, c + dc, dr, dc)
    ELSE <<>>

\* the first occupied square from (step_r, step_c) onward: the enemy to jump,
\* or <<>> when the ray leaves the board or stops at a friend or a visited piece
RECURSIVE find_enemy(_, _, _, _, _, _, _, _)
find_enemy(bd, ps, color, step_r, step_c, dr, dc, captured) ==
    IF ~_is_within_bounds(bd, step_r, step_c) THEN <<>>
    ELSE LET target == getPiece(bd, step_r, step_c)
         IN IF target # NoPiece
            THEN IF ps[target].color = color \/ <<step_r, step_c>> \in Range(captured)
                 THEN <<>>
                 ELSE <<step_r, step_c>>
            ELSE find_enemy(bd, ps, color, step_r + dr, step_c + dc, dr, dc, captured)

\* in direction (dr, dc) from (r, c): the enemy to jump and the squares a
\* jump over it can land on (none without an enemy)
jump_over(bd, ps, color, r, c, dr, dc, captured) ==
    With(find_enemy(bd, ps, color, r + dr, c + dc, dr, dc, captured),
         LAMBDA enemy :
            [enemy |-> enemy,
             landings |-> IF enemy = <<>> THEN <<>>
                          ELSE empty_run(bd, enemy[1] + dr, enemy[2] + dc, dr, dc)])

RECURSIVE dfs_international(_, _, _, _, _, _, _, _)
dfs_international(bd, ps, color, origin, r, c, path, captured) ==
    With([d \in 1..4 |-> jump_over(bd, ps, color, r, c,
                                   directions[d][1], directions[d][2], captured)],
         LAMBDA jumps :
            IF \E d \in 1..4 : jumps[d].landings # <<>>
            THEN ConcatAll([d \in 1..4 |->
                     ConcatAll([k \in 1..Len(jumps[d].landings) |->
                         LET after == jumps[d].landings[k]
                         IN dfs_international(bd, ps, color, origin, after[1], after[2],
                                              Append(path, after),
                                              Append(captured, jumps[d].enemy))])])
            ELSE IF captured # <<>> THEN << Move(origin, path, captured) >> ELSE <<>>)

King_possibleMoves(bd, ps, self) ==
    LET p == ps[self]
        origin == position(p)
    IN IF bd.boardSize = 8
       THEN LET moves == step_moves(bd, origin, p.row, p.col, directions)
            IN With(dfs_english(bd, ps, p.color, origin, p.row, p.col, <<>>, <<>>),
                    LAMBDA capture_moves :
                       IF capture_moves # <<>> THEN capture_moves ELSE moves)
       ELSE LET moves == ConcatAll([d \in 1..4 |->
                    With(empty_run(bd, p.row + directions[d][1], p.col + directions[d][2],
                                   directions[d][1], directions[d][2]),
                         LAMBDA run : [k \in 1..Len(run) |-> Move(origin, << run[k] >>, <<>>)])])
            IN With(dfs_international(bd, ps, p.color, origin, p.row, p.col, <<>>, <<>>),
                    LAMBDA capture_moves :
                       IF capture_moves # <<>> THEN capture_moves ELSE moves)

possibleMoves(bd, ps, self) ==
    IF ps[self].is_king THEN King_possibleMoves(bd, ps, self)
    ELSE Man_possibleMoves(bd, ps, self)

(* ---------------- Python dict: a sequence of [key, val] in insertion order ---------------- *)
DictHas(d, k) == \E i \in DOMAIN d : d[i].key = k

DictGet(d, k) == d[CHOOSE i \in DOMAIN d : d[i].key = k].val

DictSet(d, k, v) ==
    IF DictHas(d, k)
    THEN [i \in DOMAIN d |-> IF d[i].key = k THEN [key |-> k, val |-> v] ELSE d[i]]
    ELSE Append(d, [key |-> k, val |-> v])

DictValues(d) == [i \in DOMAIN d |-> d[i].val]

(* ---------------- core/board.py : move generation ---------------- *)
_resolve_moves_by_start(bd, moves_by_start) ==
    ConcatAll([i \in DOMAIN moves_by_start |->
        LET piece == getPiece(bd, moves_by_start[i].key[1], moves_by_start[i].key[2])
        IN IF piece = NoPiece THEN <<>>
           ELSE << [key |-> piece, val |-> moves_by_start[i].val] >>])

kings_captured(bd, ps, move) ==
    Cardinality({i \in DOMAIN move.captures :
        LET captured == getPiece(bd, move.captures[i][1], move.captures[i][2])
        IN captured # NoPiece /\ ps[captured].is_king})

\* keeps, in every entry of the map, the moves for which keep holds, and
\* drops the entries left without moves
FilterMap(m, keep(_)) ==
    ConcatAll([i \in DOMAIN m |->
        With(SelectSeq(m[i].val, keep),
             LAMBDA filtered :
                IF filtered # <<>> THEN << [key |-> m[i].key, val |-> filtered] >> ELSE <<>>)])

\* the filter without its second stage: the longest captures, whatever they take
\* the first stage of the filter: the moves that take max_captures pieces
by_capture_count(capture_map, max_captures) ==
    FilterMap(capture_map, LAMBDA m : Len(m.captures) = max_captures)

\* the second stage: of the moves kept, those that take max_kings kings
majority(bd, ps, kept, max_kings) ==
    FilterMap(kept, LAMBDA m : kings_captured(bd, ps, m) = max_kings)

\* the filter without its second stage: the longest captures, whatever they take
filter_longest_only(bd, ps, capture_map) ==
    With(ConcatAll(DictValues(capture_map)), LAMBDA all_moves :
        IF all_moves = <<>> THEN capture_map
        ELSE With(by_capture_count(capture_map,
                                   MaxOf({Len(m.captures) : m \in Range(all_moves)})),
                  LAMBDA kept : IF kept = <<>> THEN capture_map ELSE kept))

_filter_majority_captures(bd, ps, capture_map) ==
    With(ConcatAll(DictValues(capture_map)), LAMBDA all_moves :
        IF all_moves = <<>> THEN capture_map
        ELSE With(by_capture_count(capture_map,
                                   MaxOf({Len(m.captures) : m \in Range(all_moves)})),
                  LAMBDA kept :
                     IF kept = <<>> THEN capture_map
                     ELSE With(majority(bd, ps, kept,
                                        MaxOf({kings_captured(bd, ps, m) :
                                               m \in Range(ConcatAll(DictValues(kept)))})),
                               LAMBDA most : IF most # <<>> THEN most ELSE kept)))

\* the loop of getAllValidMoves over getAllPieces(): the capture map and the
\* quiet map, keyed by piece.position
\* one turn of that loop: what piece enters, and into which of the two maps
collect_piece(bd, ps, color, piece) ==
    IF ps[piece].color # color THEN [into |-> "", key |-> position(ps[piece]), val |-> <<>>]
    ELSE With(possibleMoves(bd, ps, piece), LAMBDA moves :
            IF moves = <<>> THEN [into |-> "", key |-> position(ps[piece]), val |-> <<>>]
            ELSE With(SelectSeq(moves, is_capture), LAMBDA capture_moves :
                    IF capture_moves # <<>>
                    THEN [into |-> "capture_map", key |-> position(ps[piece]), val |-> capture_moves]
                    ELSE [into |-> "quiet_map", key |-> position(ps[piece]), val |-> moves]))

\* the entries of one map, in the order of the loop
entries_of(turns, map) ==
    With(SelectSeq(turns, LAMBDA t : t.into = map), LAMBDA kept :
        [i \in DOMAIN kept |-> [key |-> kept[i].key, val |-> kept[i].val]])

collect_moves(bd, ps, color, pcs) ==
    With([i \in DOMAIN pcs |-> collect_piece(bd, ps, color, pcs[i])], LAMBDA turns :
        [capture_map |-> entries_of(turns, "capture_map"), quiet_map |-> entries_of(turns, "quiet_map")])

cache_store(bd, cache_key, result) ==
    IF bd.use_move_cache /\ Len(bd.moves_cache) < bd.moves_cache_max_entries
    THEN Append(bd.moves_cache, [key |-> cache_key, val |-> result])
    ELSE bd.moves_cache

\* the choice without the capture rule: quiet moves stay next to the captures
choose_result_unforced(bd, ps, capture_map, quiet_map) ==
    (IF bd.boardSize # 8 THEN _filter_majority_captures(bd, ps, capture_map) ELSE capture_map)
        \o quiet_map

\* getAllValidMoves choosing what it returns: the quiet moves when no piece
\* captures, else the captures (filtered by majority off the 8x8 board)
choose_result(bd, ps, capture_map, quiet_map) ==
    IF capture_map = <<>> THEN quiet_map
    ELSE IF bd.boardSize # 8 THEN _filter_majority_captures(bd, ps, capture_map)
    ELSE capture_map

\* a cache key that leaves the colour out
moves_cache_key_any_color(bd, color) == <<bd.boardSize, bd.zobrist_hash, NoColor>>

\* cache_key = (self.boardSize, self.zobrist_hash, color)
moves_cache_key(bd, color) == <<bd.boardSize, bd.zobrist_hash, color>>

\* returns the move map and the board with its move cache as the call leaves it
getAllValidMoves(bd, ps, color) ==
    LET cache_key == moves_cache_key(bd, color)
    IN IF bd.use_move_cache /\ DictHas(bd.moves_cache, cache_key)
       THEN [moves |-> _resolve_moves_by_start(bd, DictGet(bd.moves_cache, cache_key)),
             bd |-> bd]
       ELSE With(getAllPieces(bd), LAMBDA pcs :
            With(collect_moves(bd, ps, color, pcs), LAMBDA maps :
            With(choose_result(bd, ps, maps.capture_map, maps.quiet_map), LAMBDA result :
                [moves |-> _resolve_moves_by_start(bd, result),
                 bd |-> [bd EXCEPT !.moves_cache = cache_store(bd, cache_key, result)]])))

(* ---------------- core/board.py : game over ---------------- *)
\* the number of WHITE pieces among pcs
white_count(ps, pcs) == Cardinality({i \in DOMAIN pcs : ps[pcs[i]].color = WHITE})

\* is_game_over by piece counts alone
is_game_over_by_count(bd, ps) ==
    With(getAllPieces(bd), LAMBDA pcs :
    With(white_count(ps, pcs), LAMBDA whites :
        LET black_count == Len(pcs) - whites
        IN IF whites = 0 /\ black_count = 0 THEN [winner |-> NoColor, bd |-> bd]
           ELSE IF whites = 0 THEN [winner |-> BLACK, bd |-> bd]
           ELSE IF black_count = 0 THEN [winner |-> WHITE, bd |-> bd]
           ELSE [winner |-> NoColor, bd |-> bd]))

\* is_game_over with a draw when the opponent of a blocked side is blocked too
is_game_over_with_draw(bd, ps) ==
    With(getAllPieces(bd), LAMBDA pcs :
    With(white_count(ps, pcs), LAMBDA whites :
        LET black_count == Len(pcs) - whites
            current == bd.turn
        IN IF whites = 0 /\ black_count = 0 THEN [winner |-> NoColor, bd |-> bd]
           ELSE IF whites = 0 THEN [winner |-> BLACK, bd |-> bd]
           ELSE IF black_count = 0 THEN [winner |-> WHITE, bd |-> bd]
           ELSE With(getAllValidMoves(bd, ps, current), LAMBDA res :
                   IF res.moves # <<>> THEN [winner |-> NoColor, bd |-> res.bd]
                   ELSE With(getAllValidMoves(res.bd, ps, OtherColor(current)), LAMBDA other :
                           IF other.moves = <<>> THEN [winner |-> NoColor, bd |-> other.bd]
                           ELSE [winner |-> OtherColor(current), bd |-> other.bd]))))

\* returns the winner (NoColor for None) and the board with its move cache
is_game_over(bd, ps) ==
    With(getAllPieces(bd), LAMBDA pcs :
    With(white_count(ps, pcs), LAMBDA whites :
        LET black_count == Len(pcs) - whites
            current == bd.turn
        IN IF whites = 0 /\ black_count = 0 THEN [winner |-> NoColor, bd |-> bd]
           ELSE IF whites = 0 THEN [winner |-> BLACK, bd |-> bd]
           ELSE IF black_count = 0 THEN [winner |-> WHITE, bd |-> bd]
           ELSE With(getAllValidMoves(bd, ps, current), LAMBDA current_moves :
                   IF current_moves.moves # <<>>
                   THEN [winner |-> NoColor, bd |-> current_moves.bd]
                   ELSE [winner |-> IF current = WHITE THEN BLACK ELSE WHITE,
                         bd |-> current_moves.bd])))

(* ---------------- core/board.py : make / unmake ---------------- *)
\* a new object takes the smallest handle no live object has
NewHandle(ps) == CHOOSE h \in 1..(Cardinality(DOMAIN ps) + 1) : h \notin DOMAIN ps

\* Piece.move that leaves row and col as they are
move_nowhere(ps, piece, new_row, new_col) == ps

\* Piece.move
move_piece(ps, piece, new_row, new_col) ==
    [ps EXCEPT ![piece].row = new_row, ![piece].col = new_col]

\* Man.promote: a new King object with the colour, square and id of the Man
promote(ps, piece) ==
    LET p == ps[piece]
        k == NewHandle(ps)
    IN [handle |-> k,
        ps |-> [h \in DOMAIN ps \cup {k} |->
                   IF h = k THEN Piece(p.color, p.row, p.col, TRUE, p.id) ELSE ps[h]]]

\* promotion that turns the Man object itself into a king
promote_in_place(bd, ps, piece) ==
    LET p == ps[piece]
        last_row == IF p.color = WHITE THEN 0 ELSE bd.boardSize - 1
    IN IF ~p.is_king /\ p.row = last_row
       THEN [piece |-> piece, ps |-> [ps EXCEPT ![piece].is_king = TRUE], bd |-> bd]
       ELSE [piece |-> piece, ps |-> ps, bd |-> bd]

_handle_promotion(bd, ps, piece) ==
    LET p == ps[piece]
        last_row == IF p.color = WHITE THEN 0 ELSE bd.boardSize - 1
    IN IF ~p.is_king /\ p.row = last_row
       THEN With(promote(ps, piece), LAMBDA promoted :
               [piece |-> promoted.handle, ps |-> promoted.ps,
                bd |-> [bd EXCEPT !.board[p.row + 1][p.col + 1] = promoted.handle]])
       ELSE [piece |-> piece, ps |-> ps, bd |-> bd]

\* the captured piece taken off its square, the hash left as it was
remove_captured_keeps_hash(bd, ps, cap, target) ==
    [bd EXCEPT !.board[cap[1] + 1][cap[2] + 1] = NoPiece]

\* make_move taking the captured piece off its square
remove_captured(bd, ps, cap, target) ==
    [bd EXCEPT !.board[cap[1] + 1][cap[2] + 1] = NoPiece,
               !.zobrist_hash = Xor(bd.zobrist_hash,
                                    zobrist_piece_key(bd.boardSize, cap[1], cap[2], ps[target]))]

\* make_move leaving the turn with the mover
keep_turn(bd, prev_turn) == bd

\* make_move handing the turn to the other colour
flip_turn(bd, prev_turn) ==
    LET new_turn == IF bd.turn = WHITE THEN BLACK ELSE WHITE
    IN [bd EXCEPT !.turn = new_turn,
                  !.zobrist_hash = Xor(bd.zobrist_hash,
                                       Xor(zobrist_turn_key(prev_turn), zobrist_turn_key(new_turn)))]

UndoRecord(prev_turn, prev_hash, piece_before, piece_after, start, end_sq, captured, captured_positions) ==
    [prev_turn |-> prev_turn, prev_hash |-> prev_hash,
     piece_before |-> piece_before, piece_after |-> piece_after,
     start |-> start, end |-> end_sq,
     captured |-> captured, captured_positions |-> captured_positions]

NoUndo == UndoRecord(NoColor, {}, NoPiece, NoPiece, <<>>, <<>>, <<>>, <<>>)

Raised(what, bd, ps) == [raised |-> what, bd |-> bd, ps |-> ps, undo |-> NoUndo]

\* make_move leaving its loop over move.steps, by an exception or at the end
Left(what, bd, ps, old, captured, captured_positions) ==
    [raised |-> what, bd |-> bd, ps |-> ps, old |-> old,
     captured |-> captured, captured_positions |-> captured_positions]

\* the loop of make_move over move.steps, from step idx on; old is the square
\* the piece stands on
RECURSIVE make_move_steps(_, _, _, _, _, _, _, _)
make_move_steps(bd, ps, piece, move, idx, old, captured, captured_positions) ==
    IF idx > Len(move.steps)
    THEN Left("", bd, ps, old, captured, captured_positions)
    ELSE LET new == move.steps[idx]
         IN IF ~_is_within_bounds(bd, new[1], new[2])
            THEN Left("ValueError: steps must stay within the board",
                      bd, ps, old, captured, captured_positions)
            ELSE IF getPiece(bd, new[1], new[2]) # NoPiece
            THEN Left("ValueError: destination must be empty",
                      bd, ps, old, captured, captured_positions)
            ELSE With([bd EXCEPT !.board[old[1] + 1][old[2] + 1] = NoPiece,
                                 !.zobrist_hash = Xor(bd.zobrist_hash,
                                      zobrist_piece_key(bd.boardSize, old[1], old[2], ps[piece]))],
                      LAMBDA lifted :
                 LET cap == move.captures[idx]
                     target == getPiece(lifted, cap[1], cap[2])
                 IN IF is_capture(move)
                       /\ (target = NoPiece \/ ps[target].color = ps[piece].color)
                    THEN Left("RuntimeError: missing or friendly capture",
                              lifted, ps, old, captured, captured_positions)
                    ELSE With(IF is_capture(move) THEN remove_captured(lifted, ps, cap, target)
                              ELSE lifted, LAMBDA taken :
                         With(move_piece(ps, piece, new[1], new[2]), LAMBDA moved :
                            make_move_steps(
                                [taken EXCEPT !.board[new[1] + 1][new[2] + 1] = piece,
                                              !.zobrist_hash = Xor(taken.zobrist_hash,
                                                   zobrist_piece_key(bd.boardSize, new[1], new[2],
                                                                     moved[piece]))],
                                moved, piece, move, idx + 1, new,
                                IF is_capture(move) THEN Append(captured, target) ELSE captured,
                                IF is_capture(move) THEN Append(captured_positions, cap)
                                ELSE captured_positions))))

\* make_move after its checks: the loop, the promotion and the turn
make_move_checked(bd, ps, piece, move) ==
    LET prev_turn == bd.turn
        prev_hash == bd.zobrist_hash
        start == <<ps[piece].row, ps[piece].col>>
    IN With(make_move_steps(bd, ps, piece, move, 1, start, <<>>, <<>>), LAMBDA lp :
          IF lp.raised # "" THEN Raised(lp.raised, lp.bd, lp.ps)
          ELSE With(_handle_promotion(lp.bd, lp.ps, piece), LAMBDA hp :
                  LET old == lp.old
                      bdp == IF hp.piece # piece
                             THEN [hp.bd EXCEPT
                                      !.board[old[1] + 1][old[2] + 1] = hp.piece,
                                      !.zobrist_hash =
                                          Xor(Xor(hp.bd.zobrist_hash,
                                                  zobrist_piece_key(bd.boardSize, old[1], old[2],
                                                                    hp.ps[piece])),
                                              zobrist_piece_key(bd.boardSize, old[1], old[2],
                                                                hp.ps[hp.piece]))]
                             ELSE hp.bd
                  IN [raised |-> "", bd |-> flip_turn(bdp, prev_turn), ps |-> hp.ps,
                      undo |-> UndoRecord(prev_turn, prev_hash, piece, hp.piece, start, old,
                                          lp.captured, lp.captured_positions)]))

\* make_move without the test that the piece passed is the one on its square
make_move_any_piece(bd, ps, piece, move) ==
    IF move.steps = <<>>
    THEN Raised("ValueError: no destination step", bd, ps)
    ELSE IF move.start # <<ps[piece].row, ps[piece].col>>
    THEN Raised("ValueError: start does not match piece position", bd, ps)
    ELSE IF is_capture(move) /\ Len(move.captures) # Len(move.steps)
    THEN Raised("ValueError: one capture coordinate per step", bd, ps)
    ELSE make_move_checked(bd, ps, piece, move)

make_move(bd, ps, piece, move) ==
    IF move.steps = <<>>
    THEN Raised("ValueError: no destination step", bd, ps)
    ELSE IF move.start # <<ps[piece].row, ps[piece].col>>
    THEN Raised("ValueError: start does not match piece position", bd, ps)
    ELSE IF getPiece(bd, ps[piece].row, ps[piece].col) # piece
    THEN Raised("ValueError: piece must occupy its recorded position", bd, ps)
    ELSE IF is_capture(move) /\ Len(move.captures) # Len(move.steps)
    THEN Raised("ValueError: one capture coordinate per step", bd, ps)
    ELSE make_move_checked(bd, ps, piece, move)

\* the loop of unmake_move over zip(undo.captured, undo.captured_positions)
RECURSIVE restore_captured(_, _, _, _)
restore_captured(bd, ps, undo, i) ==
    IF i > Len(undo.captured) \/ i > Len(undo.captured_positions) THEN [bd |-> bd, ps |-> ps]
    ELSE LET sq == undo.captured_positions[i]
             bd2 == [bd EXCEPT !.board[sq[1] + 1][sq[2] + 1] = undo.captured[i]]
             ps2 == move_piece(ps, undo.captured[i], sq[1], sq[2])
         IN restore_captured(bd2, ps2, undo, i + 1)

\* unmake_move that leaves the captured pieces off the board
unmake_move_without_captured(bd, ps, undo) ==
    LET bd1 == [bd EXCEPT !.board[undo.end[1] + 1][undo.end[2] + 1] = NoPiece]
        ps2 == move_piece(ps, undo.piece_before, undo.start[1], undo.start[2])
    IN [bd |-> [bd1 EXCEPT !.board[undo.start[1] + 1][undo.start[2] + 1] = undo.piece_before,
                           !.turn = undo.prev_turn,
                           !.zobrist_hash = undo.prev_hash],
        ps |-> ps2]

unmake_move(bd, ps, undo) ==
    With(restore_captured([bd EXCEPT !.board[undo.end[1] + 1][undo.end[2] + 1] = NoPiece],
                          ps, undo, 1),
         LAMBDA rc :
            [bd |-> [rc.bd EXCEPT !.board[undo.start[1] + 1][undo.start[2] + 1] = undo.piece_before,
                                  !.turn = undo.prev_turn,
                                  !.zobrist_hash = undo.prev_hash],
             ps |-> move_piece(rc.ps, undo.piece_before, undo.start[1], undo.start[2])])

movePiece(bd, ps, piece, move) == make_move(bd, ps, piece, move)

(* ---------------- positions the program is started from ---------------- *)
_DEFAULT_MOVES_CACHE_MAX == MovesCacheMax

\* Board.empty(boardSize, turn) with the pieces of placed put on it, in the
\* order of placed (ids 0, 1, ... as the id counter hands them out), and the
\* hash set with recompute_hash, as the tests build their positions
Position(boardSize, turn, placed) ==
    LET ps == [h \in 1..Len(placed) |->
                  Piece(placed[h][3], placed[h][1], placed[h][2], placed[h][4], h - 1)]
        grid == [r \in 1..boardSize |-> [c \in 1..boardSize |->
                    IF \E h \in 1..Len(placed) : <<placed[h][1], placed[h][2]>> = <<r - 1, c - 1>>
                    THEN CHOOSE h \in 1..Len(placed) : <<placed[h][1], placed[h][2]>> = <<r - 1, c - 1>>
                    ELSE NoPiece]]
        bd0 == [boardSize |-> boardSize, board |-> grid, turn |-> turn,
                zobrist_hash |-> {}, use_move_cache |-> TRUE,
                moves_cache_max_entries |-> _DEFAULT_MOVES_CACHE_MAX,
                moves_cache |-> <<>>]
    IN CHOOSE p \in {[bd |-> [b EXCEPT !.zobrist_hash = compute_board_hash(b, q)], ps |-> q] :
                      b \in {bd0}, q \in {ps}} : TRUE

\* Board._set_start_pieces: the squares filled, row by row
RECURSIVE _set_start_row(_, _, _)
_set_start_row(boardSize, row, col) ==
    IF col >= boardSize THEN <<>>
    ELSE LET rows_to_fill == IF boardSize = 8 THEN 3 ELSE 4
         IN (IF (row + col) % 2 = 1 /\ row < rows_to_fill THEN << <<row, col, BLACK, FALSE>> >>
             ELSE IF (row + col) % 2 = 1 /\ row >= boardSize - rows_to_fill
                  THEN << <<row, col, WHITE, FALSE>> >>
                  ELSE <<>>)
            \o _set_start_row(boardSize, row, col + 1)

RECURSIVE _set_start_pieces(_, _)
_set_start_pieces(boardSize, row) ==
    IF row >= boardSize THEN <<>>
    ELSE _set_start_row(boardSize, row, 0) \o _set_start_pieces(boardSize, row + 1)

\* Board(boardSize)
NewBoard(boardSize) == Position(boardSize, WHITE, _set_start_pieces(boardSize, 0))

\* board.use_move_cache = False
WithoutCache(p) == [p EXCEPT !.bd.use_move_cache = FALSE]

M(row, col, color) == <<row, col, color, FALSE>>
K(row, col, color) == <<row, col, color, TRUE>>

StartPositions ==
    { \* the 8x8 board as set up, the move cache switched off as the benchmark does
      WithoutCache(NewBoard(8)),
      \* the 10x10 board as set up, likewise
      WithoutCache(NewBoard(10)),
      \* 8x8 double jump of a man (test_make_unmake_multi_jump_british_man)
      Position(8, WHITE, << M(5, 0, WHITE), M(4, 1, BLACK), M(2, 3, BLACK) >>),
      \* 8x8 the same double jump one black move later
      Position(8, BLACK, << M(5, 0, WHITE), M(4, 1, BLACK), M(2, 3, BLACK), M(0, 7, BLACK) >>),
      \* 8x8 men one step from promotion, both colours
      Position(8, WHITE, << M(1, 2, WHITE), M(6, 5, BLACK), M(5, 0, WHITE) >>),
      \* 8x8 neither side can move (test_game_over_when_side_to_move_has_no_moves)
      Position(8, WHITE, << M(0, 1, WHITE), M(7, 0, BLACK) >>),
      \* 8x8 after any black move White cannot move, Black can
      Position(8, BLACK, << M(1, 0, WHITE), M(0, 1, BLACK), M(2, 5, BLACK) >>),
      \* 8x8 king with a choice of double jumps, a man that promotes by capture,
      \* a man with quiet moves only
      Position(8, WHITE, << K(5, 2, WHITE), M(4, 3, BLACK), M(2, 3, BLACK), M(2, 5, BLACK),
                            M(2, 1, WHITE), M(1, 2, BLACK), M(7, 6, WHITE) >>),
      \* 8x8 one move before both sides are blocked
      Position(8, WHITE, << M(0, 1, BLACK), M(0, 3, BLACK), M(0, 5, BLACK), M(0, 7, BLACK),
                            M(1, 0, WHITE), M(1, 2, WHITE), M(1, 4, WHITE), M(1, 6, WHITE),
                            M(2, 3, WHITE), M(2, 5, WHITE), M(2, 7, WHITE), M(3, 2, WHITE) >>),
      \* 10x10 majority capture (test_international_majority_capture_prefers_longest_sequence)
      Position(10, WHITE, << M(6, 1, WHITE), M(5, 2, BLACK), M(3, 4, BLACK), M(7, 2, BLACK) >>),
      \* 10x10 flying king double capture (test_make_unmake_multi_jump_international_king_flying)
      Position(10, WHITE, << K(5, 4, WHITE), M(4, 3, BLACK), M(2, 1, BLACK) >>),
      \* 10x10 equal capture counts, one of them takes a king; a second white man
      Position(10, WHITE, << M(6, 3, WHITE), K(5, 2, BLACK), M(5, 4, BLACK), M(8, 7, WHITE),
                             M(1, 6, BLACK) >>),
      \* 10x10 a man that jumps onto the far rank and on, off it; a man that steps onto it
      Position(10, WHITE, << M(2, 1, WHITE), M(1, 2, BLACK), M(1, 4, BLACK), M(1, 8, WHITE),
                             M(6, 7, BLACK) >>),
      \* 10x10 black to move, captures tied on both counts, and a quiet black king
      Position(10, BLACK, << M(3, 4, BLACK), M(4, 3, WHITE), M(4, 5, WHITE), K(0, 9, BLACK),
                             M(8, 1, WHITE) >>),
      \* 8x8 a king with a black man on each of the four squares next to it, an
      \* empty square behind each of them
      Position(8, WHITE, << K(6, 3, WHITE), M(5, 4, BLACK), M(3, 4, BLACK), M(3, 2, BLACK),
                            M(5, 2, BLACK) >>) }

\* the Piece objects standing on the board
OnBoardOf(bd) == {bd.board[r][c] : r \in 1..bd.boardSize, c \in 1..bd.boardSize} \ {NoPiece}

\* the boards a game is played on: a Game's own board is the board as set up;
\* the tests put a board of their own in its place (game.board = board)
GameStartPositions ==
    { \* 8x8 two white men that can step to the same square
      Position(8, WHITE, << M(5, 0, WHITE), M(5, 2, WHITE), M(2, 1, BLACK), M(2, 5, BLACK) >>),
      \* 8x8 men one step from promotion, both colours
      Position(8, WHITE, << M(1, 2, WHITE), M(6, 5, BLACK), M(5, 0, WHITE) >>),
      \* 8x8 a double jump for White after any black move
      Position(8, BLACK, << M(5, 0, WHITE), M(4, 1, BLACK), M(2, 3, BLACK), M(0, 7, BLACK) >>),
      \* 10x10 majority capture
      Position(10, WHITE, << M(6, 1, WHITE), M(5, 2, BLACK), M(3, 4, BLACK), M(7, 2, BLACK) >>) }

(* ---------------- core/game.py ---------------- *)
None == [none |-> TRUE]

MoveRecord(piece_before, piece_after, move, captured) ==
    [piece_before |-> piece_before, piece_after |-> piece_after,
     move |-> move, captured |-> captured]

\* Piece.getCopy: a new object of the same class with the fields of the piece
getCopy(ps, piece) ==
    LET k == NewHandle(ps)
    IN [handle |-> k,
        ps |-> [h \in DOMAIN ps \cup {k} |-> IF h = k THEN ps[piece] ELSE ps[h]]]

\* a Game object g: its board (bd, with the Piece objects ps), current_player,
\* winner (NoColor for None) and move_history
getValidMoves(g) == getAllValidMoves(g.bd, g.ps, g.current_player)

switchTurn(g) == [g EXCEPT !.current_player = g.bd.turn]

Returns(value, g) == [returned |-> value, raised |-> "", g |-> g]

makeMove(g, piece, move) ==
    IF piece = NoPiece \/ move = None THEN Returns("False", g)
    ELSE With(getValidMoves(g), LAMBDA valid_moves :
         LET g1 == [g EXCEPT !.bd = valid_moves.bd]
         IN IF ~DictHas(valid_moves.moves, piece) THEN Returns("False", g1)
            ELSE IF move \notin Range(DictGet(valid_moves.moves, piece)) THEN Returns("False", g1)
            ELSE With(getCopy(g1.ps, piece), LAMBDA snap :
                 With(movePiece(g1.bd, snap.ps, piece, move), LAMBDA mp :
                    LET moved_piece == getPiece(mp.bd, end(move)[1], end(move)[2])
                    IN IF mp.raised # ""
                       THEN [returned |-> "", raised |-> mp.raised,
                             g |-> [g1 EXCEPT !.bd = mp.bd, !.ps = mp.ps]]
                       ELSE IF moved_piece = NoPiece
                       THEN [returned |-> "", raised |-> "RuntimeError: moved piece is missing",
                             g |-> [g1 EXCEPT !.bd = mp.bd, !.ps = mp.ps]]
                       ELSE With(is_game_over(mp.bd, mp.ps), LAMBDA over :
                               Returns("True",
                                   switchTurn([g1 EXCEPT !.bd = over.bd, !.ps = mp.ps,
                                       !.winner = over.winner,
                                       !.move_history = Append(g1.move_history,
                                           MoveRecord(snap.handle, moved_piece, move,
                                                      mp.undo.captured))]))))))

\* the loop of undoMove over record.captured: each captured piece back on the
\* square it remembers
RECURSIVE replace_captured(_, _, _, _)
replace_captured(bd, ps, captured, i) ==
    IF i > Len(captured) THEN bd
    ELSE replace_captured(
             [bd EXCEPT !.board[ps[captured[i]].row + 1][ps[captured[i]].col + 1] = captured[i]],
             ps, captured, i + 1)

undoMove(g) ==
    IF g.move_history = <<>> THEN g
    ELSE LET record == g.move_history[Len(g.move_history)]
             end_sq == end(record.move)
             start == record.move.start
         IN With(replace_captured(
                     [g.bd EXCEPT !.board[end_sq[1] + 1][end_sq[2] + 1] = NoPiece],
                     g.ps, record.captured, 1), LAMBDA replaced :
            With(move_piece(g.ps, record.piece_before, start[1], start[2]), LAMBDA moved :
               switchTurn([g EXCEPT
                   !.bd = [replaced EXCEPT
                              !.board[start[1] + 1][start[2] + 1] = record.piece_before,
                              !.turn = moved[record.piece_before].color],
                   !.ps = moved, !.winner = NoColor,
                   !.move_history = SubSeq(g.move_history, 1, Len(g.move_history) - 1)])))

\* Game.reset(board_size): a game g on a new Board of the size given, or of
\* the size it has
reset(g, board_size) ==
    With(NewBoard(IF board_size # <<>> THEN board_size[1] ELSE g.bd.boardSize), LAMBDA new :
        [bd |-> new.bd, ps |-> new.ps, current_player |-> new.bd.turn,
         winner |-> NoColor, move_history |-> <<>>])

\* Board.to_state: size, turn and, row by row, the pieces with their fields
to_state(bd, ps) ==
    <<bd.boardSize, bd.turn,
      ConcatAll([r \in 1..bd.boardSize |-> ConcatAll([c \in 1..bd.boardSize |->
          LET piece == bd.board[r][c]
          IN IF piece = NoPiece THEN <<>>
             ELSE << <<r - 1, c - 1, ps[piece].color, ps[piece].is_king, ps[piece].id>> >>])])>>

(* ---------------- server/session.py ---------------- *)
VARIANT_TO_SIZE == [british |-> 8, international |-> 10]

\* a GameSession s: variant, _state_version, _ai_job_seq, _ai_active_job_id,
\* _ai_cancel_event ("none" for None, else "clear" or "set": the state of the
\* Event object the field refers to) and pending_ai_moves per colour (None or
\* the move)
GameSession ==
    [variant |-> "british", _state_version |-> 0, _ai_job_seq |-> 0, _ai_active_job_id |-> 0,
     _ai_cancel_event |-> "none", pending_ai_moves |-> [c \in Colors |-> None]]

cancel_ai(s) ==
    IF s._ai_cancel_event # "none" THEN [s EXCEPT !._ai_cancel_event = "set"] ELSE s

_clear_pending_ai_moves(s) == [s EXCEPT !.pending_ai_moves = [c \in Colors |-> None]]

_require_piece(g, row, col) == getPiece(g.bd, row, col)

\* the first legal move of the piece whose steps are the candidate, None without one
_locate_matching_move(g, piece, candidate) ==
    With(getValidMoves(g), LAMBDA valid_moves :
        LET options == IF DictHas(valid_moves.moves, piece)
                       THEN DictGet(valid_moves.moves, piece) ELSE <<>>
            matching == {i \in DOMAIN options : options[i].steps = candidate}
        IN [move |-> IF matching = {} THEN None
                     ELSE options[CHOOSE i \in matching : \A j \in matching : i <= j],
            g |-> [g EXCEPT !.bd = valid_moves.bd]])

SessionRaised(what, s, g) == [raised |-> what, s |-> s, g |-> g]

\* GameSession.make_move(payload) once it holds the lock: payload.start and
\* payload.steps
make_move_locked(s1, g, start, steps) ==
    LET piece == _require_piece(g, start[1], start[2])
    IN IF piece = NoPiece THEN SessionRaised("ValueError: no piece", s1, g)
       ELSE IF g.ps[piece].color # g.current_player
       THEN SessionRaised("ValueError: selected piece cannot move now", s1, g)
       ELSE With(_locate_matching_move(g, piece, steps), LAMBDA found :
               IF found.move = None
               THEN SessionRaised("ValueError: requested move path is invalid", s1, found.g)
               ELSE With(makeMove(found.g, piece, found.move), LAMBDA made :
                       IF made.raised # "" THEN SessionRaised(made.raised, s1, made.g)
                       ELSE IF made.returned # "True"
                       THEN SessionRaised("RuntimeError: move execution failed", s1, made.g)
                       ELSE SessionRaised("", _clear_pending_ai_moves(
                                [s1 EXCEPT !._state_version = s1._state_version + 1]), made.g)))

\* GameSession.make_move(payload) with no other call between its two steps
session_make_move(s, g, start, steps) == make_move_locked(cancel_ai(s), g, start, steps)

(* ---------------- ai/huistic.py ---------------- *)
RECURSIVE sum(_)
sum(xs) == IF xs = <<>> THEN 0 ELSE Head(xs) + sum(Tail(xs))

abs(x) == IF x < 0 THEN -x ELSE x

\* the weights of the evaluation in hundredths
_profile_for(board_size) ==
    IF board_size = 8
    THEN [man_value |-> 100, king_value_open |-> 205, king_value_end |-> 235,
          progress_weight |-> 12, center_weight |-> 8,
          back_row_weight_open |-> 22, back_row_weight_end |-> 6,
          mobility_weight |-> 4,
          promotion_weight_open |-> 10, promotion_weight_end |-> 22,
          edge_weight |-> 4, support_weight |-> 6, capture_pressure_weight |-> 3,
          threat_weight |-> 35, capture_opportunity_weight |-> 18]
    ELSE [man_value |-> 100, king_value_open |-> 265, king_value_end |-> 310,
          progress_weight |-> 6, center_weight |-> 6,
          back_row_weight_open |-> 14, back_row_weight_end |-> 4,
          mobility_weight |-> 6,
          promotion_weight_open |-> 8, promotion_weight_end |-> 18,
          edge_weight |-> 2, support_weight |-> 5, capture_pressure_weight |-> 4,
          threat_weight |-> 45, capture_opportunity_weight |-> 22]

_starting_pieces_per_side(board_size) ==
    LET half == MaxOf({1, board_size \div 2})
    IN MaxOf({0, (half - 1) * half})

_opponent(color) == IF color = WHITE THEN BLACK ELSE WHITE

\* what 1.0 is for the terms of a piece and of a move: they are integers in
\* units of 1 / (20 * max_rank), the common denominator of the fractions of
\* the helpers below (max_rank, 2 * center, 4, 2) and of 0.20
one(size) == 20 * (size - 1)

_forward_progress(piece, size) ==
    IF piece.is_king THEN one(size)
    ELSE IF piece.color = WHITE THEN 20 * ((size - 1) - piece.row)
    ELSE 20 * piece.row

\* center is max_rank / 2, so the offsets are |2 * row - max_rank| / 2
_center_bias(piece, size) ==
    MaxOf({0, one(size) - 10 * (abs(2 * piece.row - (size - 1))
                                + abs(2 * piece.col - (size - 1)))})

_back_rank_guard(piece, size) ==
    IF piece.is_king THEN 0
    ELSE IF piece.row = (IF piece.color = WHITE THEN size - 1 ELSE 0) THEN one(size)
    ELSE 0

_promotion_threat(piece, size) ==
    IF piece.is_king THEN 0
    ELSE LET target_row == IF piece.color = WHITE THEN 0 ELSE size - 1
         IN MaxOf({0, one(size) - 20 * abs(piece.row - target_row)})

_edge_anchor(piece, size) ==
    IF piece.col \in {0, size - 1} THEN one(size)
    ELSE IF piece.col \in {1, size - 2} THEN one(size) \div 2
    ELSE 0

_support_network(piece, bd, ps) ==
    (one(bd.boardSize) \div 4)
    * Cardinality({d \in {-1, 1} \X {-1, 1} :
                     LET neighbor == getPiece(bd, piece.row + d[1], piece.col + d[2])
                     IN neighbor # NoPiece /\ ps[neighbor].color = piece.color})

\* the moves of a move map, one list after the other
all_options(moves) == ConcatAll([i \in DOMAIN moves |-> moves[i].val])

\* the number of moves of a move map
count_moves(moves) == Len(all_options(moves))

\* the pressure of a move map: 1.0 + 0.20 * len(move.captures) for each capture
pressure_of(options, size) ==
    sum([i \in DOMAIN options |->
            IF is_capture(options[i])
            THEN one(size) + 4 * (size - 1) * Len(options[i].captures) ELSE 0])

capture_targets(options) ==
    UNION {{options[i].captures[j] : j \in DOMAIN options[i].captures} : i \in DOMAIN options}

\* how many of targets by_pos maps to a piece of color: by_pos keeps, for a
\* position, the last of pcs that records it
targets_of_color(ps, pcs, targets, color) ==
    Cardinality({pos \in targets :
        LET at == {i \in DOMAIN pcs : position(ps[pcs[i]]) = pos}
        IN at # {} /\ ps[pcs[MaxOf(at)]].color = color})

\* only the material of the perspective: the opponent is left out of the sum
evaluate_own_material(bd, ps, perspective) ==
    [score |-> Cardinality({i \in DOMAIN getAllPieces(bd) :
                               ps[getAllPieces(bd)[i]].color = perspective}), bd |-> bd]

\* evaluate_board, as an integer in units of 1 / (100 * start_total * 20 *
\* max_rank): the weights are hundredths, the phase is gone / start_total, and
\* the terms of pieces and moves are in units of 1 / (20 * max_rank).  The
\* two calls of getAllValidMoves leave their entries in the move cache of the
\* board.
evaluate_board(bd, ps, perspective) ==
    With(getAllPieces(bd), LAMBDA pcs :
    With(getAllValidMoves(bd, ps, WHITE), LAMBDA white_moves :
    With(getAllValidMoves(white_moves.bd, ps, BLACK), LAMBDA black_moves :
        LET size == bd.boardSize
            profile == _profile_for(size)
            start_total == 2 * _starting_pieces_per_side(size)
            gone == MaxOf({0, MinOf({start_total, start_total - Len(pcs)})})
            phased(open, closed) == open * start_total + (closed - open) * gone
            king_value == phased(profile.king_value_open, profile.king_value_end)
            back_row_weight == phased(profile.back_row_weight_open, profile.back_row_weight_end)
            promotion_weight == phased(profile.promotion_weight_open,
                                       profile.promotion_weight_end)
            opponent == _opponent(perspective)
            piece(i) == ps[pcs[i]]
            over(c, term(_)) ==
                sum([i \in DOMAIN pcs |-> IF piece(i).color = c THEN term(piece(i)) ELSE 0])
            men(c, term(_)) ==
                sum([i \in DOMAIN pcs |->
                        IF piece(i).color = c /\ ~piece(i).is_king THEN term(piece(i)) ELSE 0])
            value(p) == IF p.is_king THEN king_value * one(size)
                        ELSE profile.man_value * start_total * one(size)
            progress_of(p) == _forward_progress(p, size)
            promotion_of(p) == _promotion_threat(p, size)
            back_row_of(p) == _back_rank_guard(p, size)
            center_of(p) == _center_bias(p, size)
            edge_of(p) == _edge_anchor(p, size)
            support_of(p) == _support_network(p, bd, ps)
            material == [c \in Colors |-> over(c, value)]
            progress == [c \in Colors |-> men(c, progress_of)]
            promotion == [c \in Colors |-> men(c, promotion_of)]
            back_row == [c \in Colors |-> men(c, back_row_of)]
            centers == [c \in Colors |-> over(c, center_of)]
            edges == [c \in Colors |-> over(c, edge_of)]
            support == [c \in Colors |-> over(c, support_of)]
            legal == [c \in Colors |-> all_options(IF c = WHITE THEN white_moves.moves
                                                   ELSE black_moves.moves)]
            mobility == [c \in Colors |-> one(size) * Len(legal[c])]
            capture_pressure == [c \in Colors |-> pressure_of(legal[c], size)]
            targets == [c \in Colors |-> capture_targets(legal[c])]
            threatened ==
                [c \in Colors |->
                    one(size) * targets_of_color(ps, pcs, targets[_opponent(c)], c)]
            capture_opportunity ==
                [c \in Colors |->
                    one(size) * targets_of_color(ps, pcs, targets[c], _opponent(c))]
            diff(x) == x[perspective] - x[opponent]
        IN [score |-> diff(material)
                      + profile.progress_weight * start_total * diff(progress)
                      + profile.center_weight * start_total * diff(centers)
                      + back_row_weight * diff(back_row)
                      + promotion_weight * diff(promotion)
                      + profile.edge_weight * start_total * diff(edges)
                      + profile.support_weight * start_total * diff(support)
                      + profile.mobility_weight * start_total * diff(mobility)
                      + profile.capture_pressure_weight * start_total * diff(capture_pressure)
                      + profile.capture_opportunity_weight * start_total
                        * diff(capture_opportunity)
                      - profile.threat_weight * start_total * diff(threatened),
            bd |-> black_moves.bd])))

(* ---------------- ai/cancel.py, ai/minimax.py ---------------- *)
\* _WIN_SCORE stands above every evaluation in the units above, as 1_000_000.0
\* stands above every evaluation in the source, and _WIN_SCORE + depth is
\* kept as it is: scores compare as they do in the source
_WIN_SCORE == 1000000000
_MAX_TT_ENTRIES == 500000
_DEFAULT_ENDGAME_MAX_PIECES == 6
_DEFAULT_ENDGAME_MAX_PLIES == 40
inf == _WIN_SCORE + _WIN_SCORE

\* A search in progress, cx: the board it moves on (bd, ps), the transposition
\* table tt, how many times it has looked at the cancel event and the clock
\* (n), the exception on its way up (exc, "" for none), the score returned,
\* the calls _alphabeta has made of itself (descents), _ENDGAME_TABLEBASE
\* (memo) and the calls of _solve_endgame that have returned (solves).
\* clock: deadline is TRUE for a deadline that is not None; timeup_at is <<k>>
\* when perf_counter() reaches the deadline at the look numbered k (from 0)
\* and <<>> when it never does; cancel_at likewise for cancel_event.is_set().
Searching(bd, ps, tt) ==
    [bd |-> bd, ps |-> ps, tt |-> tt, n |-> 0, exc |-> "", score |-> 0, descents |-> {},
     memo |-> <<>>, solves |-> {}]

\* where _alphabeta stands when it calls itself: the index of the move in
\* ordered_moves (-1 at the null move), whether the move is a capture (at the
\* null move: whether the side to move has to capture) and whether it
\* promotes, the hash of the board the call is made on, the number of pieces
\* on it, alpha, beta and whether the caller maximizes
Standing(index, capture, promotes, bd, alpha, beta, maximizing) ==
    [index |-> index, capture |-> capture, promote |-> promotes, node |-> bd.zobrist_hash,
     pieces |-> Len(getAllPieces(bd)), alpha |-> alpha, beta |-> beta,
     maximizing |-> maximizing]

\* _alphabeta, called with depth, about to call itself with ply and
\* callee_depth: kind is "full", "reduced", "again" or "null", and score the
\* score the reduced search returned when kind is "again"; kind "returned"
\* is the reduced search of a move having returned score
descend(cx, ply, depth, callee_depth, kind, at, score) ==
    [cx EXCEPT !.descents = @ \cup {[ply |-> ply, caller |-> depth, depth |-> callee_depth,
                                      kind |-> kind, at |-> at, score |-> score]}]

is_set(at, n) == at # <<>> /\ at[1] <= n

raise_if_cancelled(cx, clock) ==
    IF is_set(clock.cancel_at, cx.n)
    THEN [cx EXCEPT !.exc = "CancelledError", !.n = cx.n + 1]
    ELSE [cx EXCEPT !.n = cx.n + 1]

\* if deadline is not None and time.perf_counter() >= deadline: raise _TimeUp()
raise_if_time_up(looked, clock, n) ==
    IF looked.exc = "" /\ clock.deadline /\ is_set(clock.timeup_at, n)
    THEN [looked EXCEPT !.exc = "_TimeUp"]
    ELSE looked

_check_time(cx, clock) == raise_if_time_up(raise_if_cancelled(cx, clock), clock, cx.n)

\* the key of a transposition-table entry without the perspective
tt_key_hash_only(board_hash, maximizing_color) == <<board_hash, NoColor>>

\* tt_key = (board_hash, maximizing_color)
tt_key(board_hash, maximizing_color) == <<board_hash, maximizing_color>>

TTEntry(key, depth, score, flag, best_move) ==
    [key |-> key, depth |-> depth, score |-> score, flag |-> flag, best_move |-> best_move]

\* the table with the entry evicted that _store_tt_entry picks when the table
\* is full: among the 64 oldest entries the first of the least depth
evict(tt) ==
    LET window == 1..(IF Len(tt) < 64 THEN Len(tt) ELSE 64)
        least == CHOOSE i \in window :
                    \A j \in window : tt[j].val.depth > tt[i].val.depth
                                      \/ (tt[j].val.depth = tt[i].val.depth /\ i <= j)
    IN [i \in 1..(Len(tt) - 1) |-> IF i < least THEN tt[i] ELSE tt[i + 1]]

\* _store_tt_entry with the oldest entry evicted when the table is full
store_tt_entry_oldest_out(max_tt_entries, tt, key, depth, score, alpha_orig, beta_orig, best_move) ==
    LET flag == IF score <= alpha_orig THEN "UPPER"
                ELSE IF score >= beta_orig THEN "LOWER" ELSE "EXACT"
    IN DictSet(IF Len(tt) >= max_tt_entries THEN Tail(tt) ELSE tt,
               key, TTEntry(key, depth, score, flag, best_move))

\* _store_tt_entry, max_tt_entries being what _MAX_TT_ENTRIES is when it is called
store_tt_entry(max_tt_entries, tt, key, depth, score, alpha_orig, beta_orig, best_move) ==
    LET flag == IF score <= alpha_orig THEN "UPPER"
                ELSE IF score >= beta_orig THEN "LOWER" ELSE "EXACT"
    IN DictSet(IF Len(tt) >= max_tt_entries THEN evict(tt) ELSE tt,
               key, TTEntry(key, depth, score, flag, best_move))

_store_tt_entry(tt, key, depth, score, alpha_orig, beta_orig, best_move) ==
    store_tt_entry(_MAX_TT_ENTRIES, tt, key, depth, score, alpha_orig, beta_orig, best_move)

_would_promote(ps, piece, move, board_size) ==
    IF ps[piece].is_king THEN FALSE
    ELSE end(move)[1] = (IF ps[piece].color = WHITE THEN 0 ELSE board_size - 1)

\* _lmr_reduction(options, depth, index, piece, move, board_size)
_lmr_reduction(options, depth, index, ps, piece, move, board_size) ==
    IF ~options.use_lmr THEN 0
    ELSE IF depth < options.lmr_min_depth THEN 0
    ELSE IF index < options.lmr_min_moves THEN 0
    ELSE IF is_capture(move) THEN 0
    ELSE IF _would_promote(ps, piece, move, board_size) THEN 0
    ELSE MaxOf({1, options.lmr_reduction})

_fallback_move_key(move) ==
    <<IF is_capture(move) THEN 0 ELSE 1, -Len(move.captures),
      move.start[1], move.start[2], end(move)[1], end(move)[2]>>

\* _move_sort_score without a tt move, killers or history: hundredths dropped
_move_sort_score(ps, piece, move, board_size) ==
    (IF is_capture(move) THEN 500 + Len(move.captures) * 25 ELSE 0)
    + (IF _would_promote(ps, piece, move, board_size) THEN 150 ELSE 0)

\* tuples compared as Python compares them
tuple_less(a, b) ==
    \E i \in DOMAIN a : a[i] < b[i] /\ \A j \in 1..(i - 1) : a[j] = b[j]

\* list.sort: the pairs in ascending order of their keys, equal keys in the
\* order they had
sorted(pairs, keys) ==
    LET rank == [i \in DOMAIN pairs |->
                    Cardinality({j \in DOMAIN pairs :
                        tuple_less(keys[j], keys[i]) \/ (keys[j] = keys[i] /\ j < i)})]
    IN [r \in DOMAIN pairs |-> pairs[CHOOSE i \in DOMAIN pairs : rank[i] = r - 1]]

\* _order_moves looking for tt_move only when use_move_ordering is set
order_moves_tt_move_when_ordering(moves_map, bd, ps, options, tt_move) ==
    LET all == ConcatAll([i \in DOMAIN moves_map |->
                   [j \in DOMAIN moves_map[i].val |->
                       <<moves_map[i].key, moves_map[i].val[j]>>]])
        hits == {i \in DOMAIN all : all[i][2] = tt_move}
        hit == IF ~options.use_move_ordering \/ tt_move = None \/ hits = {} THEN 0
               ELSE CHOOSE i \in hits : \A j \in hits : i <= j
        prefix == IF hit = 0 THEN <<>> ELSE <<all[hit]>>
        pairs == IF hit = 0 THEN all
                 ELSE SubSeq(all, 1, hit - 1) \o SubSeq(all, hit + 1, Len(all))
    IN IF ~options.use_move_ordering
       THEN prefix \o (IF options.deterministic_ordering
                       THEN sorted(pairs, [i \in DOMAIN pairs |-> _fallback_move_key(pairs[i][2])])
                       ELSE pairs)
       ELSE prefix \o sorted(pairs, [i \in DOMAIN pairs |->
                <<-_move_sort_score(ps, pairs[i][1], pairs[i][2], bd.boardSize)>>
                \o [k \in 1..6 |-> -_fallback_move_key(pairs[i][2])[k]]])

\* _order_moves; sort(reverse=True) is the ascending sort of the negated keys
_order_moves(moves_map, bd, ps, options, tt_move) ==
    LET all == ConcatAll([i \in DOMAIN moves_map |->
                   [j \in DOMAIN moves_map[i].val |->
                       <<moves_map[i].key, moves_map[i].val[j]>>]])
        hits == {i \in DOMAIN all : all[i][2] = tt_move}
        hit == IF tt_move = None \/ hits = {} THEN 0
               ELSE CHOOSE i \in hits : \A j \in hits : i <= j
        prefix == IF hit = 0 THEN <<>> ELSE <<all[hit]>>
        pairs == IF hit = 0 THEN all
                 ELSE SubSeq(all, 1, hit - 1) \o SubSeq(all, hit + 1, Len(all))
    IN IF ~options.use_move_ordering
       THEN prefix \o (IF options.deterministic_ordering
                       THEN sorted(pairs, [i \in DOMAIN pairs |-> _fallback_move_key(pairs[i][2])])
                       ELSE pairs)
       ELSE prefix \o sorted(pairs, [i \in DOMAIN pairs |->
                <<-_move_sort_score(ps, pairs[i][1], pairs[i][2], bd.boardSize)>>
                \o [k \in 1..6 |-> -_fallback_move_key(pairs[i][2])[k]]])

\* _can_try_null_move; moves_map is what board.getAllValidMoves(board.turn)
\* returns, which _alphabeta has just asked for on the same board
_can_try_null_move(bd, moves_map, options, depth) ==
    IF depth <= options.null_move_reduction + 1 THEN FALSE
    ELSE IF options.use_endgame_tablebase
            /\ Len(getAllPieces(bd)) <= options.endgame_max_pieces THEN FALSE
    ELSE IF moves_map = <<>> THEN FALSE
    ELSE ~(moves_map[1].val # <<>> /\ is_capture(moves_map[1].val[1]))

_capture_only_moves(bd, ps) ==
    With(getAllValidMoves(bd, ps, bd.turn), LAMBDA moves_map :
        [moves |-> IF moves_map.moves = <<>> THEN <<>>
                   ELSE IF moves_map.moves[1].val # <<>>
                           /\ is_capture(moves_map.moves[1].val[1])
                   THEN moves_map.moves
                   ELSE <<>>,
         bd |-> moves_map.bd])

\* the search with a score to return
scored(cx, score) == [cx EXCEPT !.score = score]

\* the search after evaluate_board
evaluated_as(cx, ev) == [cx EXCEPT !.bd = ev.bd, !.score = ev.score]

evaluated(cx, maximizing_color) ==
    evaluated_as(cx, evaluate_board(cx.bd, cx.ps, maximizing_color))

\* board.make_move(piece, move) in a loop of the search; an exception of
\* make_move is on its way up
entered_by(cx, made) ==
    [cx |-> [cx EXCEPT !.bd = made.bd, !.ps = made.ps, !.exc = made.raised],
     undo |-> made.undo]

enter_move(cx, pair) == entered_by(cx, make_move(cx.bd, cx.ps, pair[1], pair[2]))

\* the search on the board as unmake_move leaves it
unmade(cx, back) == [cx EXCEPT !.bd = back.bd, !.ps = back.ps]

\* a loop that takes the move back only when the search below returned
leave_move_on_return(cx, undo) ==
    IF cx.exc # "" THEN cx ELSE unmade(cx, unmake_move(cx.bd, cx.ps, undo))

\* finally: board.unmake_move(undo)
leave_move(cx, undo) == unmade(cx, unmake_move(cx.bd, cx.ps, undo))

\* finally: board.turn = prev_turn; board.zobrist_hash = prev_hash
restore_turn(cx, prev_turn, prev_hash) ==
    [cx EXCEPT !.bd.turn = prev_turn, !.bd.zobrist_hash = prev_hash]

RECURSIVE _alphabeta(_, _, _, _, _, _, _, _)
RECURSIVE search_moves(_, _, _, _, _, _, _, _)
RECURSIVE _quiescence(_, _, _, _, _, _, _)
RECURSIVE quiescence_moves(_, _, _, _, _, _, _)

\* A loop of the search, L: the search (cx), value, best_move, alpha and
\* beta as the loop has them, maximizing for board.turn == maximizing_color,
\* and left once the loop is left by break or by an exception.
Loop(cx, maximizing, value, alpha, beta) ==
    [cx |-> cx, maximizing |-> maximizing, value |-> value, best_move |-> None,
     alpha |-> alpha, beta |-> beta, left |-> FALSE]

\* the loop left by the exception the search carries
thrown(L, cx) == [L EXCEPT !.cx = cx, !.left = TRUE]

\* a pass of a loop of _quiescence once the search below the move, back, has
\* returned and the move is taken back
quiescence_pass_back(L, back, options) ==
    IF back.exc # "" THEN thrown(L, back)
    ELSE With(IF L.maximizing THEN MaxOf({L.value, back.score})
              ELSE MinOf({L.value, back.score}), LAMBDA value :
         With([L EXCEPT !.cx = back, !.value = value,
                  !.alpha = IF options.use_alpha_beta /\ L.maximizing
                            THEN MaxOf({L.alpha, value}) ELSE L.alpha,
                  !.beta = IF options.use_alpha_beta /\ ~L.maximizing
                           THEN MinOf({L.beta, value}) ELSE L.beta],
              LAMBDA next :
              [next EXCEPT !.left = options.use_alpha_beta /\ next.alpha >= next.beta]))

\* the pass from board.make_move on
quiescence_pass_entered(L, entered, maximizing_color, options, depth, clock) ==
    IF entered.cx.exc # "" THEN thrown(L, entered.cx)
    ELSE quiescence_pass_back(L, leave_move(_quiescence(entered.cx, maximizing_color, L.alpha,
                                                        L.beta, options, depth + 1, clock),
                                            entered.undo), options)

\* the pass from _check_time on
quiescence_pass_timed(L, timed, pair, maximizing_color, options, depth, clock) ==
    IF timed.exc # "" THEN thrown(L, timed)
    ELSE quiescence_pass_entered(L, enter_move(timed, pair), maximizing_color, options, depth,
                                 clock)

\* one pass of a loop of _quiescence, for the pair (piece, move)
quiescence_pass(L, pair, maximizing_color, options, depth, clock) ==
    quiescence_pass_timed(L, _check_time(L.cx, clock), pair, maximizing_color, options, depth,
                          clock)

\* the loops of _quiescence over ordered, from idx on
quiescence_moves(L, ordered, idx, maximizing_color, options, depth, clock) ==
    IF idx > Len(ordered) \/ L.left THEN L
    ELSE quiescence_moves(quiescence_pass(L, ordered[idx], maximizing_color, options, depth,
                                          clock),
                          ordered, idx + 1, maximizing_color, options, depth, clock)

\* _quiescence once its loop is over
quiescence_done(L) == IF L.cx.exc # "" THEN L.cx ELSE scored(L.cx, L.value)

\* _quiescence from the capture moves on
quiescence_captures(stand_pat, capture_map, maximizing_color, alpha, beta, options, depth, clock) ==
    IF capture_map.moves = <<>> THEN [stand_pat EXCEPT !.bd = capture_map.bd]
    ELSE quiescence_done(quiescence_moves(
             Loop([stand_pat EXCEPT !.bd = capture_map.bd],
                  capture_map.bd.turn = maximizing_color, stand_pat.score,
                  MaxOf({alpha, stand_pat.score}), beta),
             _order_moves(capture_map.moves, capture_map.bd, stand_pat.ps, options, None),
             1, maximizing_color, options, depth, clock))

\* _quiescence from stand_pat on
quiescence_stand_pat(stand_pat, maximizing_color, alpha, beta, options, depth, clock) ==
    IF options.use_alpha_beta /\ stand_pat.score >= beta THEN scored(stand_pat, beta)
    ELSE IF depth >= options.max_quiescence_depth THEN stand_pat
    ELSE quiescence_captures(stand_pat, _capture_only_moves(stand_pat.bd, stand_pat.ps),
                             maximizing_color, alpha, beta, options, depth, clock)

\* _quiescence from _check_time on
quiescence_timed(timed, maximizing_color, alpha, beta, options, depth, clock) ==
    IF timed.exc # "" THEN timed
    ELSE quiescence_stand_pat(evaluated(timed, maximizing_color), maximizing_color, alpha, beta,
                              options, depth, clock)

_quiescence(cx, maximizing_color, alpha, beta, options, depth, clock) ==
    quiescence_timed(_check_time(cx, clock), maximizing_color, alpha, beta, options, depth, clock)

\* a pass of a loop of _alphabeta once the search below the move, back, has
\* returned and the move is taken back
search_pass_back(L, back, pair, options) ==
    IF back.exc # "" THEN thrown(L, back)
    ELSE With(IF L.maximizing THEN back.score > L.value
              ELSE back.score < L.value, LAMBDA better :
         With(IF better THEN back.score ELSE L.value, LAMBDA value :
         With([L EXCEPT !.cx = back, !.value = value,
                  !.best_move = IF better THEN pair[2] ELSE L.best_move,
                  !.alpha = IF options.use_alpha_beta /\ L.maximizing
                            THEN MaxOf({L.alpha, value}) ELSE L.alpha,
                  !.beta = IF options.use_alpha_beta /\ ~L.maximizing
                           THEN MinOf({L.beta, value}) ELSE L.beta],
              LAMBDA next :
              [next EXCEPT !.left = options.use_alpha_beta /\ next.alpha >= next.beta])))

\* the search below a move at the depth the caller's depth less one
search_full(L, cx, kind, at, score, depth, maximizing_color, options, ply, clock) ==
    _alphabeta(descend(cx, ply + 1, depth, depth - 1, kind, at, score), depth - 1,
               maximizing_color, L.alpha, L.beta, options, ply + 1, clock)

\* the search below a reduced move once the reduced search has returned:
\* the search again at depth - 1 when the score beat alpha (beta for the
\* minimizer)
search_again(L, score, at, depth, maximizing_color, options, ply, clock) ==
    IF score.exc # "" THEN score
    ELSE IF (L.maximizing /\ score.score > L.alpha) \/ (~L.maximizing /\ score.score < L.beta)
    THEN search_full(L, score, "again", at, score.score, depth, maximizing_color, options,
                     ply, clock)
    ELSE score

\* the reduced search of a move, returned
reduced_returned(score, at, ply, depth, callee_depth) ==
    IF score.exc # "" THEN score
    ELSE descend(score, ply + 1, depth, callee_depth, "returned", at, score.score)

\* the search below a move: reduced is what _lmr_reduction returned
search_below(L, cx, at, reduced, depth, maximizing_color, options, ply, clock) ==
    IF reduced > 0
    THEN search_again(L, reduced_returned(
                             _alphabeta(descend(cx, ply + 1, depth,
                                                MaxOf({1, depth - 1 - reduced}),
                                                "reduced", at, 0),
                                        MaxOf({1, depth - 1 - reduced}), maximizing_color,
                                        L.alpha, L.beta, options, ply + 1, clock),
                             at, ply, depth, MaxOf({1, depth - 1 - reduced})),
                      at, depth, maximizing_color, options, ply, clock)
    ELSE search_full(L, cx, "full", at, 0, depth, maximizing_color, options, ply, clock)

\* the pass from board.make_move on; index is that of the pair in ordered_moves
search_pass_entered(L, entered, pair, index, depth, maximizing_color, options, ply, clock) ==
    IF entered.cx.exc # "" THEN thrown(L, entered.cx)
    ELSE search_pass_back(L, leave_move(search_below(L, entered.cx,
                                            Standing(index, is_capture(pair[2]),
                                                     _would_promote(entered.cx.ps, pair[1],
                                                                    pair[2],
                                                                    entered.cx.bd.boardSize),
                                                     entered.cx.bd, L.alpha, L.beta,
                                                     L.maximizing),
                                            _lmr_reduction(options, depth, index, entered.cx.ps,
                                                           pair[1], pair[2],
                                                           entered.cx.bd.boardSize),
                                            depth, maximizing_color, options, ply, clock),
                                        entered.undo), pair, options)

\* the pass from _check_time on
search_pass_timed(L, timed, pair, index, depth, maximizing_color, options, ply, clock) ==
    IF timed.exc # "" THEN thrown(L, timed)
    ELSE search_pass_entered(L, enter_move(timed, pair), pair, index, depth, maximizing_color,
                             options, ply, clock)

\* one pass of a loop of _alphabeta, for the pair (piece, move)
search_pass(L, pair, index, depth, maximizing_color, options, ply, clock) ==
    search_pass_timed(L, _check_time(L.cx, clock), pair, index, depth, maximizing_color,
                      options, ply, clock)

\* the loops of _alphabeta over enumerate(ordered_moves), from ordered[idx] on
search_moves(L, ordered, idx, depth, maximizing_color, options, ply, clock) ==
    IF idx > Len(ordered) \/ L.left THEN L
    ELSE search_moves(search_pass(L, ordered[idx], idx - 1, depth, maximizing_color, options,
                                  ply, clock),
                      ordered, idx + 1, depth, maximizing_color, options, ply, clock)

\* _alphabeta once its loop is over: the entry stored in the table and the
\* value returned
search_done(L, depth, found, options) ==
    IF L.cx.exc # "" THEN L.cx
    ELSE [L.cx EXCEPT
             !.score = L.value,
             !.tt = IF options.use_transposition
                    THEN _store_tt_entry(L.cx.tt, found.tt_key, depth, L.value,
                                         found.alpha_orig, found.beta_orig, L.best_move)
                    ELSE L.cx.tt]

\* _alphabeta from ordered_moves on
search_node(cx, moves_map, depth, maximizing_color, alpha, beta, found, options, ply, clock) ==
    search_done(search_moves(Loop(cx, cx.bd.turn = maximizing_color,
                                  IF cx.bd.turn = maximizing_color THEN -inf ELSE inf,
                                  alpha, beta),
                             _order_moves(moves_map, cx.bd, cx.ps, options,
                                          IF found.tt_entry # None
                                          THEN found.tt_entry.best_move ELSE None),
                             1, depth, maximizing_color, options, ply, clock),
                depth, found, options)

\* _alphabeta once the search after the null move has returned null_score
null_moved(prev_turn, null_score, moves_map, depth, maximizing_color, alpha, beta, found, options, ply, clock) ==
    IF null_score.exc # "" THEN null_score
    ELSE IF prev_turn = maximizing_color /\ null_score.score >= beta THEN null_score
    ELSE IF prev_turn # maximizing_color /\ null_score.score <= alpha THEN null_score
    ELSE search_node(null_score, moves_map, depth, maximizing_color, alpha, beta, found,
                     options, ply, clock)

\* _alphabeta from the null move on
null_move(cx, moves_map, depth, maximizing_color, alpha, beta, found, options, ply, clock) ==
    IF options.use_null_move /\ options.use_alpha_beta
       /\ _can_try_null_move(cx.bd, moves_map, options, depth)
    THEN null_moved(cx.bd.turn,
                    restore_turn(
                        _alphabeta([descend(cx, ply + 1, depth,
                                            depth - 1 - options.null_move_reduction, "null",
                                            Standing(-1, moves_map[1].val # <<>>
                                                         /\ is_capture(moves_map[1].val[1]),
                                                     FALSE, cx.bd, alpha, beta,
                                                     cx.bd.turn = maximizing_color),
                                            0) EXCEPT
                                       !.bd.turn = _opponent(cx.bd.turn),
                                       !.bd.zobrist_hash =
                                           Xor(Xor(cx.bd.zobrist_hash,
                                                   zobrist_turn_key(cx.bd.turn)),
                                               zobrist_turn_key(_opponent(cx.bd.turn)))],
                                   depth - 1 - options.null_move_reduction, maximizing_color,
                                   alpha, beta, options, ply + 1, clock),
                        cx.bd.turn, cx.bd.zobrist_hash),
                    moves_map, depth, maximizing_color, alpha, beta, found, options, ply, clock)
    ELSE search_node(cx, moves_map, depth, maximizing_color, alpha, beta, found, options, ply,
                     clock)

tt_get(tt, key, options) ==
    IF options.use_transposition /\ DictHas(tt, key) THEN DictGet(tt, key) ELSE None

\* _alphabeta with the entry the table holds for its key
probed(cx, moves_map, depth, maximizing_color, alpha, beta, key, tt_entry, options, ply, clock) ==
    LET usable == tt_entry # None /\ tt_entry.depth >= depth
        found == [tt_key |-> key, tt_entry |-> tt_entry,
                  alpha_orig |-> alpha, beta_orig |-> beta]
        raised_alpha == IF usable /\ tt_entry.flag = "LOWER" THEN MaxOf({alpha, tt_entry.score})
                        ELSE alpha
        lowered_beta == IF usable /\ tt_entry.flag = "UPPER" THEN MinOf({beta, tt_entry.score})
                        ELSE beta
    IN IF usable /\ tt_entry.flag = "EXACT" THEN scored(cx, tt_entry.score)
       ELSE IF usable /\ options.use_alpha_beta /\ raised_alpha >= lowered_beta
       THEN scored(cx, tt_entry.score)
       ELSE null_move(cx, moves_map, depth, maximizing_color, raised_alpha, lowered_beta,
                      found, options, ply, clock)

lookup(cx, moves_map, depth, maximizing_color, alpha, beta, options, ply, clock) ==
    probed(cx, moves_map, depth, maximizing_color, alpha, beta,
           tt_key(cx.bd.zobrist_hash, maximizing_color),
           tt_get(cx.tt, tt_key(cx.bd.zobrist_hash, maximizing_color), options),
           options, ply, clock)

\* _alphabeta from moves_map on
alphabeta_moves(timed, moves_map, depth, maximizing_color, alpha, beta, options, ply, clock) ==
    IF moves_map.moves = <<>>
    THEN evaluated([timed EXCEPT !.bd = moves_map.bd], maximizing_color)
    ELSE lookup([timed EXCEPT !.bd = moves_map.bd], moves_map.moves, depth,
                maximizing_color, alpha, beta, options, ply, clock)

\* _alphabeta from board.is_game_over() on
alphabeta_over(timed, over, depth, maximizing_color, alpha, beta, options, ply, clock) ==
    IF over.winner # NoColor
    THEN [timed EXCEPT !.bd = over.bd,
                       !.score = IF over.winner = maximizing_color
                                 THEN _WIN_SCORE + depth ELSE -_WIN_SCORE - depth]
    ELSE IF depth = 0
    THEN IF options.use_quiescence
         THEN _quiescence([timed EXCEPT !.bd = over.bd], maximizing_color, alpha, beta,
                          options, 0, clock)
         ELSE evaluated([timed EXCEPT !.bd = over.bd], maximizing_color)
    ELSE alphabeta_moves(timed, getAllValidMoves(over.bd, timed.ps, over.bd.turn), depth,
                         maximizing_color, alpha, beta, options, ply, clock)

\* _is_endgame(board, options)
_is_endgame(bd, options) == Len(getAllPieces(bd)) <= options.endgame_max_pieces

RECURSIVE _solve_endgame(_, _, _, _, _, _)
RECURSIVE solve_moves(_, _, _, _, _, _, _, _)

\* a pass of a loop of _solve_endgame once the solver below the move, back,
\* has returned and the move is taken back
solve_pass_back(L, back) ==
    IF back.exc # "" THEN thrown(L, back)
    ELSE [L EXCEPT !.cx = back,
                   !.value = IF L.maximizing THEN MaxOf({L.value, back.score})
                             ELSE MinOf({L.value, back.score})]

\* the pass from board.make_move on
solve_pass_entered(L, entered, maximizing_color, options, ply, seen, clock) ==
    IF entered.cx.exc # "" THEN thrown(L, entered.cx)
    ELSE solve_pass_back(L, leave_move(_solve_endgame(entered.cx, maximizing_color, options,
                                                      ply + 1, seen, clock),
                                       entered.undo))

\* the pass from piece = board.getPiece at move.start on
solve_pass_piece(L, timed, piece, move, maximizing_color, options, ply, seen, clock) ==
    IF piece = NoPiece THEN [L EXCEPT !.cx = timed]
    ELSE solve_pass_entered(L, enter_move(timed, <<piece, move>>), maximizing_color, options,
                            ply, seen, clock)

\* the pass from _check_time on
solve_pass_timed(L, timed, move, maximizing_color, options, ply, seen, clock) ==
    IF timed.exc # "" THEN thrown(L, timed)
    ELSE solve_pass_piece(L, timed, getPiece(timed.bd, move.start[1], move.start[2]), move,
                          maximizing_color, options, ply, seen, clock)

\* the loops of _solve_endgame over ordered, from ordered[idx] on
solve_moves(L, ordered, idx, maximizing_color, options, ply, seen, clock) ==
    IF idx > Len(ordered) \/ L.left THEN L
    ELSE solve_moves(solve_pass_timed(L, _check_time(L.cx, clock), ordered[idx][2],
                                      maximizing_color, options, ply, seen, clock),
                     ordered, idx + 1, maximizing_color, options, ply, seen, clock)

\* _solve_endgame once its loop is over: _ENDGAME_TABLEBASE[key] = value
solve_done(L, key) ==
    IF L.cx.exc # "" THEN L.cx
    ELSE [L.cx EXCEPT !.memo = DictSet(@, key, L.value), !.score = L.value]

\* _solve_endgame from moves_map on, key added to seen
solve_node(cx, moves_map, key, maximizing_color, options, ply, seen, clock) ==
    IF moves_map.moves = <<>> THEN scored([cx EXCEPT !.bd = moves_map.bd], 0)
    ELSE solve_done(solve_moves(Loop([cx EXCEPT !.bd = moves_map.bd],
                                     moves_map.bd.turn = maximizing_color,
                                     IF moves_map.bd.turn = maximizing_color THEN -inf ELSE inf,
                                     -inf, inf),
                                _order_moves(moves_map.moves, moves_map.bd, cx.ps, options, None),
                                1, maximizing_color, options, ply, seen \cup {key}, clock),
                    key)

\* _solve_endgame from key on without the test of seen
solve_key_unguarded(cx, key, maximizing_color, options, ply, seen, clock) ==
    IF DictHas(cx.memo, key) THEN scored(cx, DictGet(cx.memo, key))
    ELSE solve_node(cx, getAllValidMoves(cx.bd, cx.ps, cx.bd.turn), key, maximizing_color,
                    options, ply, seen, clock)

\* _solve_endgame from key on
solve_key(cx, key, maximizing_color, options, ply, seen, clock) ==
    IF DictHas(cx.memo, key) THEN scored(cx, DictGet(cx.memo, key))
    ELSE IF key \in seen THEN scored(cx, 0)
    ELSE solve_node(cx, getAllValidMoves(cx.bd, cx.ps, cx.bd.turn), key, maximizing_color,
                    options, ply, seen, clock)

\* _solve_endgame from board.is_game_over() on
solve_over(timed, over, maximizing_color, options, ply, seen, clock) ==
    IF over.winner # NoColor
    THEN [timed EXCEPT !.bd = over.bd,
                       !.score = IF over.winner = maximizing_color
                                 THEN _WIN_SCORE - ply ELSE -_WIN_SCORE + ply]
    ELSE IF ply >= options.endgame_max_plies
    THEN evaluated([timed EXCEPT !.bd = over.bd], maximizing_color)
    ELSE solve_key([timed EXCEPT !.bd = over.bd],
                   tt_key(over.bd.zobrist_hash, maximizing_color), maximizing_color, options,
                   ply, seen, clock)

\* _solve_endgame from _check_time on
solve_timed(timed, maximizing_color, options, ply, seen, clock) ==
    IF timed.exc # "" THEN timed
    ELSE solve_over(timed, is_game_over(timed.bd, timed.ps), maximizing_color, options, ply,
                    seen, clock)

\* a call of _solve_endgame that has returned: the looks at the clock before
\* it was entered (id) and before it returned (last), its ply, the position
\* it was called on, whether the game was over there, whether the key of the
\* position was in seen and in _ENDGAME_TABLEBASE, what evaluate_board makes
\* of the position, and the value returned
solved(cx, returned, maximizing_color, ply, seen) ==
    IF returned.exc # "" THEN returned
    ELSE [returned EXCEPT !.solves = @ \cup
            {[id |-> cx.n, last |-> returned.n, ply |-> ply, node |-> cx.bd.zobrist_hash,
              perspective |-> maximizing_color,
              over |-> is_game_over(cx.bd, cx.ps).winner # NoColor,
              on_path |-> tt_key(cx.bd.zobrist_hash, maximizing_color) \in seen,
              known |-> DictHas(cx.memo, tt_key(cx.bd.zobrist_hash, maximizing_color)),
              evaluation |-> evaluate_board(cx.bd, cx.ps, maximizing_color).score,
              score |-> returned.score]}]

\* _solve_endgame(board, maximizing_color, options, deadline, ply, seen, cancel_event)
_solve_endgame(cx, maximizing_color, options, ply, seen, clock) ==
    solved(cx, solve_timed(_check_time(cx, clock), maximizing_color, options, ply, seen, clock),
           maximizing_color, ply, seen)

\* _alphabeta from _check_time on
alphabeta_timed(timed, depth, maximizing_color, alpha, beta, options, ply, clock) ==
    IF timed.exc # "" THEN timed
    ELSE IF options.use_endgame_tablebase /\ _is_endgame(timed.bd, options)
    THEN _solve_endgame(timed, maximizing_color, options, 0, {}, clock)
    ELSE alphabeta_over(timed, is_game_over(timed.bd, timed.ps), depth, maximizing_color,
                        alpha, beta, options, ply, clock)

_alphabeta(cx, depth, maximizing_color, alpha, beta, options, ply, clock) ==
    alphabeta_timed(_check_time(cx, clock), depth, maximizing_color, alpha, beta, options, ply,
                    clock)

\* _search_root starting without a choice
no_first_choice(root_moves) == None

\* best_choice = root_moves[0] if root_moves else None
first_choice(root_moves) == IF root_moves # <<>> THEN root_moves[1] ELSE None

\* except RuntimeError, which _TimeUp and CancelledError both are
caught_runtime_error(exc) == exc \in {"_TimeUp", "CancelledError"}

\* except _TimeUp in _search_root
caught(exc) == exc = "_TimeUp"

\* _search_root leaving its loop: by return best_choice, best_score, False
\* when it caught the exception, else with the exception
stopped(R, cx) ==
    IF caught(cx.exc) THEN [R EXCEPT !.cx = [cx EXCEPT !.exc = ""], !.left = TRUE]
    ELSE [R EXCEPT !.cx = cx, !.left = TRUE]

\* a pass of the loop of _search_root once the search below the move, back,
\* has returned and the move is taken back
root_pass_back(R, back, pair, options) ==
    IF back.exc # "" THEN stopped(R, back)
    ELSE With(back.score > R.best_score, LAMBDA better :
         With(IF better THEN back.score ELSE R.best_score, LAMBDA best_score :
         With([R EXCEPT !.cx = back, !.best_score = best_score,
                  !.finished = R.finished + 1,
                  !.best_choice = IF better THEN pair ELSE R.best_choice,
                  !.alpha = IF options.use_alpha_beta
                            THEN MaxOf({R.alpha, best_score}) ELSE R.alpha],
              LAMBDA next :
              IF options.use_alpha_beta /\ next.alpha >= next.beta
              THEN [next EXCEPT !.left = TRUE, !.completed = TRUE]
              ELSE next)))

\* the pass from board.make_move on
root_pass_entered(R, entered, pair, player, depth, options, clock) ==
    IF entered.cx.exc # "" THEN [R EXCEPT !.cx = entered.cx, !.left = TRUE]
    ELSE root_pass_back(R, leave_move(_alphabeta(entered.cx, depth - 1, player, R.alpha, R.beta,
                                                 options, 1, clock),
                                      entered.undo), pair, options)

\* the pass from _check_time on
root_pass_timed(R, timed, pair, player, depth, options, clock) ==
    IF timed.exc # "" THEN stopped(R, timed)
    ELSE root_pass_entered(R, enter_move(timed, pair), pair, player, depth, options, clock)

\* one pass of the loop of _search_root, for the pair (piece, move): R holds
\* the search, best_choice, best_score, alpha and beta, completed as it is
\* returned, and the number of root moves the loop has finished
root_pass(R, pair, player, depth, options, clock) ==
    root_pass_timed(R, _check_time(R.cx, clock), pair, player, depth, options, clock)

RECURSIVE root_loop(_, _, _, _, _, _, _)
root_loop(R, root_moves, idx, player, depth, options, clock) ==
    IF R.left THEN R
    ELSE IF idx > Len(root_moves) THEN [R EXCEPT !.completed = TRUE]
    ELSE root_loop(root_pass(R, root_moves[idx], player, depth, options, clock),
                   root_moves, idx + 1, player, depth, options, clock)

\* _search_root without use_parallel: the search, best_choice, best_score and completed
_search_root(cx, player, root_moves, depth, options, alpha, beta, clock) ==
    root_loop([cx |-> cx, best_choice |-> first_choice(root_moves), best_score |-> -inf,
               alpha |-> alpha, beta |-> beta, completed |-> FALSE, finished |-> 0,
               left |-> FALSE],
              root_moves, 1, player, depth, options, clock)

_root_tt_move(bd, tt, maximizing_color, options) ==
    IF ~options.use_transposition THEN None
    ELSE IF DictHas(tt, tt_key(bd.zobrist_hash, maximizing_color))
    THEN DictGet(tt, tt_key(bd.zobrist_hash, maximizing_color)).best_move
    ELSE None

\* deadline = None; if time_limit_ms > 0: deadline = perf_counter() + ...
\* (TRUE for a deadline that is not None)
deadline_set(use_iterative_deepening, time_limit_ms) == time_limit_ms > 0

\* an iteration's choice taken whether the iteration completed or not
takes_choice_always(best_choice, completed) == TRUE

\* if completed or best_choice is None
takes_choice(best_choice, completed) == completed \/ best_choice = None

\* what a call of select_move leaves: what it returned or raised, the board,
\* the table, the looks it took, the deadline it passed to _search_root,
\* per call of _search_root that returned, the depth, the choice, completed
\* and the number of root moves finished, and the calls _alphabeta made of
\* itself
Outcome(returned, cx, deadline, searches) ==
    [returned |-> IF cx.exc # "" THEN None ELSE returned, raised |-> cx.exc,
     bd |-> cx.bd, ps |-> cx.ps, tt |-> cx.tt, n |-> cx.n,
     deadline |-> deadline, searches |-> searches, descents |-> cx.descents]

Searched(depth, R) ==
    [depth |-> depth, choice |-> R.best_choice, completed |-> R.completed,
     finished |-> R.finished]

\* a pass of the loop of select_move over current_depth once _search_root
\* has returned R
deepen_pass_searched(S, R, current_depth, clock) ==
    IF R.cx.exc = "_TimeUp" THEN [S EXCEPT !.cx = [R.cx EXCEPT !.exc = ""], !.left = TRUE]
    ELSE IF R.cx.exc # "" THEN [S EXCEPT !.cx = R.cx, !.left = TRUE]
    ELSE With(R.best_choice # None /\ takes_choice(S.best_choice, R.completed),
              LAMBDA taken :
         With([S EXCEPT !.cx = R.cx,
                  !.best_choice = IF taken THEN R.best_choice ELSE S.best_choice,
                  !.best_score = IF taken THEN R.best_score ELSE S.best_score,
                  !.searches = Append(S.searches, Searched(current_depth, R))],
              LAMBDA next :
              IF ~R.completed THEN [next EXCEPT !.left = TRUE]
              ELSE IF ~clock.deadline THEN next
              ELSE [next EXCEPT !.cx.n = next.cx.n + 1,
                                !.left = is_set(clock.timeup_at, next.cx.n)]))

\* the pass from raise_if_cancelled on
deepen_pass_looked(S, looked, current_depth, player, root_moves, options, clock) ==
    IF looked.exc # "" THEN [S EXCEPT !.cx = looked, !.left = TRUE]
    ELSE deepen_pass_searched(S, _search_root(looked, player, root_moves, current_depth,
                                              options, -inf, inf, clock),
                              current_depth, clock)

\* one pass of the loop of select_move over current_depth, without
\* aspiration windows: S holds the search, best_choice, best_score, the
\* searches made, and left once the loop is left
deepen_pass(S, current_depth, player, root_moves, options, clock) ==
    deepen_pass_looked(S, raise_if_cancelled(S.cx, clock), current_depth, player, root_moves,
                       options, clock)

RECURSIVE deepen(_, _, _, _, _, _, _)
deepen(S, current_depth, max_depth, player, root_moves, options, clock) ==
    IF current_depth > max_depth \/ S.left THEN S
    ELSE deepen(deepen_pass(S, current_depth, player, root_moves, options, clock),
                current_depth + 1, max_depth, player, root_moves, options, clock)

\* what select_move returns after its loop over current_depth
deepened(S, clock) == Outcome(S.best_choice, S.cx, clock.deadline, S.searches)

\* what select_move returns after its one call of _search_root
searched_once(R, depth, clock) ==
    Outcome(R.best_choice, R.cx, clock.deadline, <<Searched(depth, R)>>)

\* select_move from root_moves on
select_move_ordered(cx, player, root_moves, depth, options, use_iterative_deepening, clock) ==
    IF use_iterative_deepening
    THEN deepened(deepen([cx |-> cx, best_choice |-> None, best_score |-> -inf,
                          searches |-> <<>>, left |-> FALSE],
                         1, depth, player, root_moves, options, clock), clock)
    ELSE searched_once(_search_root(cx, player, root_moves, depth, options, -inf, inf, clock),
                       depth, clock)

\* select_move from moves_map on
select_move_moves(g, tt, looked, moves_map, depth, options, use_iterative_deepening, time_limit_ms, timing) ==
    IF moves_map.moves = <<>>
    THEN Outcome(None, [looked EXCEPT !.bd = moves_map.bd], FALSE, <<>>)
    ELSE select_move_ordered(
             [looked EXCEPT !.bd = moves_map.bd], g.current_player,
             _order_moves(moves_map.moves, moves_map.bd, g.ps, options,
                          _root_tt_move(moves_map.bd, tt, g.current_player, options)),
             depth, options, use_iterative_deepening,
             [timing EXCEPT !.deadline = deadline_set(use_iterative_deepening, time_limit_ms)])

\* select_move from raise_if_cancelled on
select_move_looked(g, tt, looked, depth, options, use_iterative_deepening, time_limit_ms, timing) ==
    IF looked.exc # "" THEN Outcome(None, looked, FALSE, <<>>)
    ELSE select_move_moves(g, tt, looked, getAllValidMoves(g.bd, g.ps, g.current_player), depth,
                           options, use_iterative_deepening, time_limit_ms, timing)

\* minimax.select_move(game, depth, ..., cancel_event) without aspiration,
\* killer, history and butterfly tables and parallel workers; timing tells
\* when the cancel event and the clock turn
select_move(g, tt, depth, options, use_iterative_deepening, time_limit_ms, timing) ==
    IF depth <= 0
    THEN Outcome(None, [Searching(g.bd, g.ps, tt) EXCEPT !.exc = "ValueError"], FALSE, <<>>)
    ELSE select_move_looked(g, tt, raise_if_cancelled(Searching(g.bd, g.ps, tt), timing), depth,
                            options, use_iterative_deepening, time_limit_ms, timing)

\* clear_transposition_table()
clear_transposition_table(tt) == <<>>

(* ---------------- ai/mcts.py ---------------- *)
\* the loop of _search_single over range(iterations), from iteration i on: of
\* an iteration the look at the cancel event it starts with and the first
\* look of its selection loop
RECURSIVE mcts_iterations(_, _, _, _)
mcts_iterations(cx, i, iterations, clock) ==
    IF i > iterations THEN cx
    ELSE With(raise_if_cancelled(cx, clock), LAMBDA started :
         IF started.exc # "" THEN started
         ELSE With(raise_if_cancelled(started, clock), LAMBDA selecting :
              IF selecting.exc # "" THEN selecting
              ELSE mcts_iterations(selecting, i + 1, iterations, clock)))

\* mcts.select_move(game, iterations, ..., cancel_event) without workers; the
\* tree is grown on a copy of the board, and best is the root move the visit
\* counts, which follow the random rollouts, end up favouring
mcts_select_move(g, tt, iterations, best, clock) ==
    IF iterations <= 0
    THEN Outcome(None, [Searching(g.bd, g.ps, tt) EXCEPT !.exc = "ValueError"], FALSE, <<>>)
    ELSE With(raise_if_cancelled(Searching(g.bd, g.ps, tt), clock), LAMBDA looked :
         IF looked.exc # "" THEN Outcome(None, looked, FALSE, <<>>)
         ELSE With(getAllValidMoves(WithoutCache(g).bd, g.ps, g.bd.turn).moves,
                   LAMBDA moves_map :
              IF moves_map = <<>> THEN Outcome(None, looked, FALSE, <<>>)
              ELSE With(mcts_iterations(looked, 1, iterations, clock), LAMBDA cx :
                   With(_order_moves(moves_map, g.bd, g.ps,
                                     [use_move_ordering |-> FALSE,
                                      deterministic_ordering |-> FALSE], None),
                        LAMBDA root_moves :
                        Outcome(root_moves[((best - 1) % Len(root_moves)) + 1],
                                cx, FALSE, <<>>)))))

(* ---------------- state ---------------- *)
VARIABLES
    board,          \* the Board object: boardSize, board (the grid), turn, zobrist_hash, move cache
    pieces,         \* the Piece objects, by handle
    undo_stack,     \* the undo records the caller of make_move holds, innermost last
    before,         \* per move made and not taken back, what the caller saw before it
    last,           \* the last call: its name, its arguments and what it returned or raised
    current_player, \* Game.current_player
    winner,         \* Game.winner
    move_history,   \* Game.move_history
    session,        \* the GameSession around the game
    undone,         \* how many times Game.undoMove has taken a move back
    tt,             \* minimax._TRANSPOSITION_TABLE
    search,         \* the last call of the AI: its arguments and what it left
    requests        \* the calls of the session's methods under way or over, each with its locals

vars == <<board, pieces, undo_stack, before, last,
          current_player, winner, move_history, session, undone, tt, search, requests>>

gameVars == <<current_player, winner, move_history, session, undone, tt, search, requests>>

\* the snapshot the tests compare, with the hash: per square the piece standing there
snapshot(bd, ps) ==
    [size |-> bd.boardSize, turn |-> bd.turn, hash |-> bd.zobrist_hash,
     squares |-> [r \in 1..bd.boardSize |-> [c \in 1..bd.boardSize |->
                    IF bd.board[r][c] = NoPiece THEN <<NoPiece>>
                    ELSE <<bd.board[r][c], ps[bd.board[r][c]]>>]]]

NoMove == Move(<<>>, <<>>, <<>>)

NoCall == [op |-> "none", color |-> NoColor, moves |-> <<>>, undo |-> NoUndo,
           winner |-> NoColor, raised |-> "", piece |-> NoPiece, move |-> NoMove,
           returned |-> "", start |-> <<>>, steps |-> <<>>, pre |-> None]

\* the handles some live variable refers to
Referenced(bd, call, us, history) ==
    {bd.board[r][c] : r \in 1..bd.boardSize, c \in 1..bd.boardSize}
    \cup {call.moves[i].key : i \in DOMAIN call.moves}
    \cup {call.piece}
    \cup UNION {{us[i].piece_before, us[i].piece_after} \cup Range(us[i].captured) : i \in DOMAIN us}
    \cup UNION {{history[i].piece_before, history[i].piece_after} \cup Range(history[i].captured) :
                   i \in DOMAIN history}

Collect(ps, live) == [h \in (DOMAIN ps) \cap live |-> ps[h]]

\* no call of the AI yet
NoSearch == [op |-> "none", calls |-> 0]

NoGame ==
    /\ current_player = board.turn
    /\ winner = NoColor
    /\ move_history = <<>>
    /\ session = GameSession
    /\ undone = 0
    /\ tt = <<>>
    /\ search = NoSearch
    /\ requests = <<>>

Init ==
    /\ \E p \in StartPositions : board = p.bd /\ pieces = p.ps
    /\ undo_stack = <<>>
    /\ before = <<>>
    /\ last = NoCall
    /\ NoGame

\* moves = board.getAllValidMoves(color)
GetAllValidMoves(color) ==
    /\ last.raised = ""
    /\ \E res \in {getAllValidMoves(board, pieces, color)} :
          /\ board' = res.bd
          /\ last' = [NoCall EXCEPT !.op = "getAllValidMoves", !.color = color,
                                    !.moves = res.moves]
    /\ UNCHANGED <<pieces, undo_stack, before>>
    /\ UNCHANGED gameVars

\* winner = board.is_game_over()
IsGameOver ==
    /\ last.raised = ""
    /\ \E res \in {is_game_over(board, pieces)} :
          /\ board' = res.bd
          /\ last' = [NoCall EXCEPT !.op = "is_game_over", !.winner = res.winner]
    /\ UNCHANGED <<pieces, undo_stack, before>>
    /\ UNCHANGED gameVars

\* undo = board.make_move(piece, move), the caller keeping undo and its snapshot
CallMakeMove(piece, move) ==
    \E res \in {make_move(board, pieces, piece, move)} :
       LET stack == IF res.raised = "" THEN Append(undo_stack, res.undo) ELSE undo_stack
           call == [NoCall EXCEPT !.op = "make_move", !.piece = piece, !.move = move,
                                  !.undo = res.undo, !.raised = res.raised,
                                  !.pre = [bd |-> board, ps |-> pieces]]
       IN /\ board' = res.bd
          /\ undo_stack' = stack
          /\ before' = IF res.raised = "" THEN Append(before, snapshot(board, pieces)) ELSE before
          /\ last' = call
          /\ pieces' = Collect(res.ps, Referenced(res.bd, call, stack, <<>>))
          /\ UNCHANGED gameVars

\* make_move of a move of the side to move, taken from the map getAllValidMoves returned
MakeMove ==
    /\ last.op = "getAllValidMoves"
    /\ last.color = board.turn
    /\ Len(undo_stack) < MaxPly
    /\ \E i \in DOMAIN last.moves : \E j \in DOMAIN last.moves[i].val :
          CallMakeMove(last.moves[i].key, last.moves[i].val[j])

\* board.unmake_move(undo) for the innermost undo record
UnmakeMove ==
    /\ undo_stack # <<>>
    /\ last.raised = ""
    /\ \E undo \in {undo_stack[Len(undo_stack)]} :
       \E res \in {unmake_move(board, pieces, undo)} :
          LET stack == SubSeq(undo_stack, 1, Len(undo_stack) - 1)
              call == [NoCall EXCEPT !.op = "unmake_move", !.undo = undo,
                                     !.piece = undo.piece_before]
          IN /\ board' = res.bd
             /\ undo_stack' = stack
             /\ before' = SubSeq(before, 1, Len(before) - 1)
             /\ last' = call
             /\ pieces' = Collect(res.ps, Referenced(res.bd, call, stack, <<>>))
             /\ UNCHANGED gameVars

Next ==
    \/ \E color \in Colors : GetAllValidMoves(color)
    \/ IsGameOver
    \/ MakeMove
    \/ UnmakeMove

Spec == Init /\ [][Next]_vars

(* ---------------- make_move called with whatever the caller passes ---------------- *)
\* the squares a caller may name: those of the pieces, those the moves of the
\* position touch, and one square off each edge of the board
Probes(bd, ps) ==
    {position(ps[h]) : h \in DOMAIN ps}
    \cup UNION {Range(m.steps) : m \in UNION {Range(possibleMoves(bd, ps, h)) : h \in OnBoardOf(bd)}}
    \cup {<<-1, 2>>, <<bd.boardSize, 1>>, <<2, -1>>, <<1, bd.boardSize>>}

\* a move of the position and what a caller can make of it by changing one part
Variants(m, probes) ==
    {m}
    \cup {[m EXCEPT !.start = q] : q \in probes}
    \cup {[m EXCEPT !.steps[i] = q] : i \in DOMAIN m.steps, q \in probes}
    \cup {[m EXCEPT !.captures[i] = q] : i \in DOMAIN m.captures, q \in probes}
    \cup {[m EXCEPT !.steps = Append(m.steps, q)] : q \in probes}
    \cup {[m EXCEPT !.captures = Append(m.captures, q)] : q \in probes}
    \cup {[m EXCEPT !.captures = SubSeq(m.captures, 1, Len(m.captures) - 1)],
          [m EXCEPT !.steps = <<>>]}

InitUnchecked ==
    /\ \E p \in StartPositions \ {WithoutCache(NewBoard(8))} :
          /\ board = p.bd
          /\ \E h \in DOMAIN p.ps \cup {NoPiece} :
                pieces = IF h = NoPiece THEN p.ps ELSE getCopy(p.ps, h).ps
    /\ undo_stack = <<>>
    /\ before = <<>>
    /\ last = NoCall
    /\ NoGame

\* board.make_move(piece, move) for any Piece object and any move among the variants
MakeMoveUnchecked ==
    /\ last.op = "none"
    /\ \E h \in OnBoardOf(board) : \E m \in Range(possibleMoves(board, pieces, h)) :
          \E move \in Variants(m, Probes(board, pieces)) :
             \E piece \in DOMAIN pieces :
                /\ (piece = h \/ move.start = position(pieces[piece]))
                /\ CallMakeMove(piece, move)

NextUnchecked ==
    \/ MakeMoveUnchecked
    \/ UnmakeMove

SpecUnchecked == InitUnchecked /\ [][NextUnchecked]_vars

(* ---------------- the game and the session ---------------- *)
game == [bd |-> board, ps |-> pieces, current_player |-> current_player,
         winner |-> winner, move_history |-> move_history]

\* what a caller compares before and after: Board.to_state, the player to
\* move, the winner and the history
seen(g) == [state |-> to_state(g.bd, g.ps), current_player |-> g.current_player,
            winner |-> g.winner, move_history |-> g.move_history]

SetGame(g, call) ==
    /\ board' = g.bd
    /\ pieces' = Collect(g.ps, Referenced(g.bd, call, <<>>, g.move_history))
    /\ current_player' = g.current_player
    /\ winner' = g.winner
    /\ move_history' = g.move_history
    /\ last' = call
    /\ undo_stack' = undo_stack
    /\ tt' = tt
    /\ search' = search
    /\ requests' = requests

InitGame ==
    /\ \E p \in GameStartPositions :
          /\ board = [p.bd EXCEPT !.moves_cache_max_entries = GameCacheMax]
          /\ pieces = p.ps
    /\ undo_stack = <<>>
    /\ before = <<>>
    /\ last = NoCall
    /\ NoGame

\* the caller goes on after a call that was answered: not after an exception,
\* and not after a move that was refused
Answered == last.raised = "" /\ last.returned # "False"

\* the moves getValidMoves hands out, each with its piece
Handed(g) ==
    With(getValidMoves(g).moves, LAMBDA served :
        UNION {{<<served[i].key, m>> : m \in Range(served[i].val)} : i \in DOMAIN served})

\* what a caller of the game may pass: a piece with a move handed out for it,
\* any piece with a move it has on the board as it stands, the first piece
\* handed out with a move of another or with no move, and no piece at all
GameInputs(g) ==
    With(Handed(g), LAMBDA handed :
        handed
        \cup UNION {{<<h, m>> : m \in Range(possibleMoves(g.bd, g.ps, h))} : h \in OnBoardOf(g.bd)}
        \cup (IF handed = {} THEN {}
              ELSE With(CHOOSE a \in handed : \A b \in handed : a[1] <= b[1], LAMBDA first :
                      {<<first[1], b[2]>> : b \in handed} \cup {<<first[1], None>>}))
        \cup {<<NoPiece, None>>})

\* game.makeMove(piece, move)
GameMakeMove ==
    /\ Answered
    /\ Len(move_history) < MaxPly
    /\ \E args \in GameInputs(game) :
       \E res \in {makeMove(game, args[1], args[2])} :
          LET call == [NoCall EXCEPT !.op = "Game.makeMove", !.piece = args[1], !.move = args[2],
                                     !.returned = res.returned, !.raised = res.raised,
                                     !.pre = game]
          IN /\ SetGame(res.g, call)
             /\ before' = IF res.returned = "True" THEN Append(before, seen(game)) ELSE before
             /\ UNCHANGED <<session, undone>>

\* game.undoMove()
GameUndoMove ==
    /\ Answered
    /\ undone < MaxUndo
    /\ move_history # <<>>
    /\ \E g \in {undoMove(game)} :
          /\ SetGame(g, [NoCall EXCEPT !.op = "Game.undoMove", !.pre = before[Len(before)]])
          /\ before' = SubSeq(before, 1, Len(before) - 1)
          /\ undone' = undone + 1
          /\ UNCHANGED session

\* the payloads a client may send: start and steps of a move of GameInputs;
\* of a move handed out also its steps cut short, and its steps from the
\* square it ends on
SessionInputs(g) ==
    {<<a[2].start, a[2].steps>> : a \in {b \in GameInputs(g) : b[2] # None}}
    \cup UNION {{<<a[2].start, SubSeq(a[2].steps, 1, Len(a[2].steps) - 1)>>,
                 <<end(a[2]), a[2].steps>>} : a \in Handed(g)}

\* session.make_move(payload)
SessionMakeMove ==
    /\ Answered
    /\ Len(move_history) < MaxPly
    /\ \E payload \in SessionInputs(game) :
       \E res \in {session_make_move(session, game, payload[1], payload[2])} :
          LET call == [NoCall EXCEPT !.op = "session.make_move", !.start = payload[1],
                                     !.steps = payload[2], !.raised = res.raised, !.pre = game]
          IN /\ SetGame(res.g, call)
             /\ session' = res.s
             /\ before' = IF res.raised = "" THEN Append(before, seen(game)) ELSE before
             /\ UNCHANGED undone

NextGame ==
    \/ GameMakeMove
    \/ GameUndoMove
    \/ SessionMakeMove

GameSpec == InitGame /\ [][NextGame]_vars

(* ---------------- the AI called on a game ---------------- *)
MaxDepth == 2
MaxLooks == 12
MaxCalls == 2
MaxSearched == 6

\* the boards the AI is asked to move on
SearchStartPositions ==
    { \* 8x8 two white men that can step to the same square
      Position(8, WHITE, << M(5, 0, WHITE), M(5, 2, WHITE), M(2, 1, BLACK), M(2, 5, BLACK) >>),
      \* 8x8 men one step from promotion, both colours
      Position(8, WHITE, << M(1, 2, WHITE), M(6, 5, BLACK), M(5, 0, WHITE) >>),
      \* 8x8 a capture for Black, a double jump for White after it
      Position(8, BLACK, << M(5, 0, WHITE), M(4, 1, BLACK), M(2, 3, BLACK), M(0, 7, BLACK) >>),
      \* 8x8 neither side can move
      Position(8, WHITE, << M(0, 1, WHITE), M(7, 0, BLACK) >>),
      \* 10x10 majority capture
      Position(10, WHITE, << M(6, 1, WHITE), M(5, 2, BLACK), M(3, 4, BLACK), M(7, 2, BLACK) >>) }

MinimaxOptions(use_alpha_beta, use_transposition, use_move_ordering, use_quiescence, use_null_move) ==
    [use_alpha_beta |-> use_alpha_beta, use_transposition |-> use_transposition,
     use_move_ordering |-> use_move_ordering, use_quiescence |-> use_quiescence,
     max_quiescence_depth |-> 1, use_null_move |-> use_null_move,
     null_move_reduction |-> 1, use_lmr |-> FALSE, lmr_min_depth |-> 3,
     lmr_min_moves |-> 4, lmr_reduction |-> 1, deterministic_ordering |-> TRUE,
     use_endgame_tablebase |-> FALSE, endgame_max_pieces |-> _DEFAULT_ENDGAME_MAX_PIECES,
     endgame_max_plies |-> _DEFAULT_ENDGAME_MAX_PLIES]

\* the options a search is run with: those the session starts with, none,
\* and pruning with the null move
SearchOptions ==
    { MinimaxOptions(TRUE, TRUE, TRUE, TRUE, FALSE),
      MinimaxOptions(FALSE, FALSE, FALSE, FALSE, FALSE),
      MinimaxOptions(TRUE, TRUE, FALSE, FALSE, TRUE) }

Timing(timeup_at, cancel_at) ==
    [deadline |-> FALSE, timeup_at |-> timeup_at, cancel_at |-> cancel_at]

\* time_limit_ms and when the clock and the cancel event turn: no limit and
\* no cancellation, a limit that is not reached, a limit reached at some
\* look, a cancellation seen at some look
Timings ==
    {<<0, Timing(<<>>, <<>>)>>, <<10, Timing(<<>>, <<>>)>>}
    \cup {<<10, Timing(<<k>>, <<>>)>> : k \in 0..MaxLooks}
    \cup {<<0, Timing(<<>>, <<k>>)>> : k \in 0..MaxLooks}

searchVars == <<undo_stack, before, last, current_player, winner, move_history, session, undone,
               requests>>

InitSearch ==
    /\ \E p \in SearchStartPositions :
          /\ board = [p.bd EXCEPT !.moves_cache_max_entries = GameCacheMax]
          /\ pieces = p.ps
    /\ undo_stack = <<>>
    /\ before = <<>>
    /\ last = NoCall
    /\ NoGame

\* what the caller had before the call
Before == [bd |-> board, ps |-> pieces, tt |-> tt, game |-> game]

Left_by(out) ==
    /\ board' = out.bd
    /\ pieces' = Collect(out.ps, OnBoardOf(out.bd))
    /\ tt' = out.tt
    /\ UNCHANGED searchVars

\* minimax.select_move(game, depth, ..., cancel_event=...)
SelectMove ==
    /\ search.calls = 0
    /\ Cardinality(OnBoardOf(board)) <= MaxSearched
    /\ \E depth \in 1..MaxDepth, options \in SearchOptions,
          use_iterative_deepening \in BOOLEAN, timed \in Timings :
       \E out \in {select_move(game, tt, depth, options, use_iterative_deepening,
                               timed[1], timed[2])} :
          /\ Left_by(out)
          /\ search' = [op |-> "select_move", calls |-> MaxCalls, depth |-> depth,
                        options |-> options,
                        use_iterative_deepening |-> use_iterative_deepening,
                        time_limit_ms |-> timed[1], timing |-> timed[2],
                        returned |-> out.returned, raised |-> out.raised, n |-> out.n,
                        deadline |-> out.deadline, searches |-> out.searches,
                        descents |-> out.descents, pre |-> Before]

\* minimax._alphabeta(board, depth, maximizing_color, -inf, inf, options, ...,
\* ply=0, deadline=None, cancel_event=None), as the tests call it
Alphabeta ==
    /\ search.calls < MaxCalls
    /\ Cardinality(OnBoardOf(board)) <= MaxSearched
    /\ \E depth \in 1..MaxDepth, maximizing_color \in Colors,
          options \in {o \in SearchOptions : o.use_transposition} :
       \E out \in {_alphabeta(Searching(board, pieces, tt), depth, maximizing_color,
                              -inf, inf, options, 0, Timing(<<>>, <<>>))} :
          /\ Left_by(out)
          /\ search' = [op |-> "_alphabeta", calls |-> search.calls + 1, depth |-> depth,
                        maximizing_color |-> maximizing_color, options |-> options,
                        score |-> out.score, raised |-> out.exc,
                        descents |-> out.descents, pre |-> Before]

\* mcts.select_move(game, iterations=..., cancel_event=...)
MctsSelectMove ==
    /\ search.calls = 0
    /\ \E iterations \in 1..MaxDepth, best \in 1..MaxDepth,
          cancel_at \in {<<>>} \cup {<<k>> : k \in 0..MaxLooks} :
       \E out \in {mcts_select_move(game, tt, iterations, best, Timing(<<>>, cancel_at))} :
          /\ Left_by(out)
          /\ search' = [op |-> "mcts.select_move", calls |-> MaxCalls,
                        iterations |-> iterations,
                        timing |-> Timing(<<>>, cancel_at),
                        returned |-> out.returned, raised |-> out.raised, n |-> out.n,
                        pre |-> Before]

\* game.reset(board_size)
GameReset ==
    /\ search.op # "Game.reset"
    /\ \E board_size \in {<<>>, <<8>>, <<10>>} :
       \E g \in {reset(game, board_size)} :
          /\ board' = g.bd
          /\ pieces' = g.ps
          /\ current_player' = g.current_player
          /\ winner' = g.winner
          /\ move_history' = g.move_history
          /\ search' = [op |-> "Game.reset", calls |-> search.calls,
                        board_size |-> board_size, pre |-> Before]
          /\ UNCHANGED <<tt, undo_stack, before, last, session, undone, requests>>

\* minimax.clear_transposition_table()
ClearTranspositionTable ==
    /\ search.op \in {"select_move", "_alphabeta"}
    /\ tt' = clear_transposition_table(tt)
    /\ search' = [op |-> "clear_transposition_table", calls |-> search.calls, pre |-> Before]
    /\ UNCHANGED <<board, pieces>>
    /\ UNCHANGED searchVars

NextSearch ==
    \/ SelectMove
    \/ Alphabeta
    \/ MctsSelectMove
    \/ GameReset
    \/ ClearTranspositionTable

SearchSpec == InitSearch /\ [][NextSearch]_vars

(* ---------------- what the claims speak about ---------------- *)
PiecesOf(bd, ps, color) == {h \in OnBoardOf(bd) : ps[h].color = color}

\* the capture moves and the quiet moves the pieces of a colour have, piece by piece
CapturesOf(bd, ps, color) ==
    UNION {{m \in Range(possibleMoves(bd, ps, h)) : is_capture(m)} : h \in PiecesOf(bd, ps, color)}

QuietsOf(bd, ps, color) ==
    UNION {{m \in Range(possibleMoves(bd, ps, h)) : ~is_capture(m)} : h \in PiecesOf(bd, ps, color)}

HasMove(bd, ps, color) == \E h \in PiecesOf(bd, ps, color) : possibleMoves(bd, ps, h) # <<>>

Returned(call) == UNION {Range(call.moves[i].val) : i \in DOMAIN call.moves}

HomeRankOfOpponent(bd, color) == IF color = WHITE THEN 0 ELSE bd.boardSize - 1

\* C1: unmake_move of the undo record make_move returned for a legal move puts
\* the board back exactly as it was before the make: every square holds the
\* same piece object with the same fields, the turn is the same and
\* zobrist_hash has its pre-make value
C1_MakeUnmakeRestores ==
    [][last'.op = "unmake_move" => snapshot(board', pieces') = before[Len(before)]]_vars

C1_Witness ==
    /\ last.op = "unmake_move"
    /\ Len(last.undo.captured) >= 2
    /\ undo_stack # <<>>

\* C2: after every make_move and unmake_move the incrementally kept
\* zobrist_hash equals the hash computed from scratch from the grid and the turn
C2_HashInSync ==
    board.zobrist_hash = compute_board_hash(board, pieces)

C2_Witness ==
    /\ last.op = "make_move"
    /\ last.undo.captured # <<>>
    /\ last.undo.piece_after # last.undo.piece_before

\* C3: when some piece of the colour has a capture move, getAllValidMoves(colour)
\* returns capture moves only
C3_ForcedCapture ==
    (last.op = "getAllValidMoves" /\ CapturesOf(board, pieces, last.color) # {})
        => \A m \in Returned(last) : is_capture(m)

C3_Witness ==
    /\ last.op = "getAllValidMoves"
    /\ CapturesOf(board, pieces, last.color) # {}
    /\ QuietsOf(board, pieces, last.color) # {}
    /\ Returned(last) # {}

\* C4: on the 10x10 board getAllValidMoves returns exactly the capture moves
\* that take the most pieces and, among those, the most kings
C4_MajorityCapture ==
    (last.op = "getAllValidMoves" /\ board.boardSize = 10
     /\ CapturesOf(board, pieces, last.color) # {})
        => LET all == CapturesOf(board, pieces, last.color)
               most == MaxOf({Len(m.captures) : m \in all})
               longest == {m \in all : Len(m.captures) = most}
               most_kings == MaxOf({kings_captured(board, pieces, m) : m \in longest})
           IN Returned(last) =
                  {m \in longest : kings_captured(board, pieces, m) = most_kings}

C4_Witness ==
    /\ last.op = "getAllValidMoves"
    /\ board.boardSize = 10
    /\ \E m1, m2 \in CapturesOf(board, pieces, last.color) :
          /\ Len(m1.captures) = Len(m2.captures)
          /\ kings_captured(board, pieces, m1) > kings_captured(board, pieces, m2)
          /\ m1 \in Returned(last)

\* C5: is_game_over returns the colour that alone has pieces; with pieces of
\* both colours it returns the opponent of the side to move when the side to
\* move has no move, and no winner when it has one
C5_GameOver ==
    last.op = "is_game_over" =>
        LET whites == PiecesOf(board, pieces, WHITE)
            blacks == PiecesOf(board, pieces, BLACK)
        IN /\ (whites # {} /\ blacks = {}) => last.winner = WHITE
           /\ (blacks # {} /\ whites = {}) => last.winner = BLACK
           /\ (whites # {} /\ blacks # {}) =>
                 last.winner = IF HasMove(board, pieces, board.turn) THEN NoColor
                               ELSE OtherColor(board.turn)

C5_Witness ==
    /\ last.op = "is_game_over"
    /\ undo_stack # <<>>
    /\ PiecesOf(board, pieces, WHITE) # {}
    /\ PiecesOf(board, pieces, BLACK) # {}
    /\ ~HasMove(board, pieces, board.turn)
    /\ HasMove(board, pieces, OtherColor(board.turn))
    /\ last.winner = OtherColor(board.turn)

NeitherCanMove(bd, ps) ==
    /\ PiecesOf(bd, ps, WHITE) # {}
    /\ PiecesOf(bd, ps, BLACK) # {}
    /\ ~HasMove(bd, ps, WHITE)
    /\ ~HasMove(bd, ps, BLACK)

C10_Promotion ==
    /\ (last.op = "make_move" /\ last.raised = "") =>
          LET u == last.undo
              man == last.pre.ps[u.piece_before]
              now == pieces[u.piece_after]
              reaches == u.end[1] = HomeRankOfOpponent(board, man.color)
          IN /\ getPiece(board, u.end[1], u.end[2]) = u.piece_after
             /\ (u.piece_after # u.piece_before) <=> (~man.is_king /\ reaches)
             /\ now.is_king <=> (man.is_king \/ reaches)
             /\ now.color = man.color /\ now.id = man.id /\ position(now) = u.end
             /\ pieces[u.piece_before].is_king = man.is_king
    /\ last.op = "unmake_move" =>
          LET u == last.undo
          IN /\ getPiece(board, u.start[1], u.start[2]) = u.piece_before
             /\ position(pieces[u.piece_before]) = u.start
             /\ (u.piece_after # u.piece_before) => ~pieces[u.piece_before].is_king

C10_Witness ==
    /\ last.op = "unmake_move"
    /\ last.undo.piece_after # last.undo.piece_before
    /\ last.undo.captured # <<>>

\* a man whose capture path touched the far rank and left it again stays a man
C10_PassThrough ==
    /\ last.op = "make_move"
    /\ Len(last.move.steps) >= 2
    /\ \E i \in 1..(Len(last.move.steps) - 1) :
          last.move.steps[i][1] = HomeRankOfOpponent(board, pieces[last.piece].color)
    /\ ~pieces[last.undo.piece_after].is_king

\* what stands on square sq when step i of the move is taken: the piece itself
\* where the steps before have brought it, nothing where it came from or where
\* it has captured, else what stood there before the call
StoodAt(move, i) == IF i = 1 THEN move.start ELSE move.steps[i - 1]

OccupantAt(bd, piece, move, i, sq) ==
    IF sq = StoodAt(move, i) THEN piece
    ELSE IF getPiece(bd, sq[1], sq[2]) = piece THEN NoPiece
    ELSE IF \E j \in 1..(i - 1) : j \in DOMAIN move.captures /\ move.captures[j] = sq THEN NoPiece
    ELSE getPiece(bd, sq[1], sq[2])

StartWrong(bd, piece, move) == getPiece(bd, move.start[1], move.start[2]) # piece

CountWrong(move) == move.captures # <<>> /\ Len(move.captures) # Len(move.steps)

StepOff(bd, move, i) == ~_is_within_bounds(bd, move.steps[i][1], move.steps[i][2])

StepOccupied(bd, piece, move, i) ==
    /\ _is_within_bounds(bd, move.steps[i][1], move.steps[i][2])
    /\ OccupantAt(bd, piece, move, i, move.steps[i]) # NoPiece

CaptureWrong(bd, ps, piece, move, i) ==
    /\ i \in DOMAIN move.captures
    /\ LET target == OccupantAt(bd, piece, move, i, move.captures[i])
       IN target = NoPiece \/ ps[target].color = ps[piece].color

\* C9: make_move raises, and returns no undo record, when the start square does
\* not hold the piece passed, when a step is off the board, when the square of
\* a step is occupied, when a capture square is empty or holds a piece of the
\* mover's colour, or when a capture move has not one capture per step
C9_MakeMoveRaises ==
    (last.op = "make_move" /\ last.pre # None) =>
        LET bd == last.pre.bd
            ps == last.pre.ps
            move == last.move
        IN (\/ StartWrong(bd, last.piece, move)
            \/ CountWrong(move)
            \/ \E i \in DOMAIN move.steps :
                  \/ StepOff(bd, move, i)
                  \/ StepOccupied(bd, last.piece, move, i)
                  \/ CaptureWrong(bd, ps, last.piece, move, i))
           => (last.raised # "" /\ last.undo = NoUndo)

C9_Witness ==
    /\ last.op = "make_move"
    /\ last.raised # ""
    /\ ~StartWrong(last.pre.bd, last.piece, last.move)
    /\ ~CountWrong(last.move)
    /\ Len(last.move.steps) >= 2
    /\ ~StepOff(last.pre.bd, last.move, 1)
    /\ ~StepOccupied(last.pre.bd, last.piece, last.move, 1)
    /\ ~CaptureWrong(last.pre.bd, last.pre.ps, last.piece, last.move, 1)
    /\ CaptureWrong(last.pre.bd, last.pre.ps, last.piece, last.move, 2)

\* the legal moves of the player to move, generated from the board as it stands
LegalMoves(g) ==
    getAllValidMoves([g.bd EXCEPT !.use_move_cache = FALSE], g.ps, g.current_player).moves

IsLegal(g, piece, move) ==
    /\ piece # NoPiece
    /\ move # None
    /\ DictHas(LegalMoves(g), piece)
    /\ move \in Range(DictGet(LegalMoves(g), piece))

\* C7: Game.makeMove(piece, move) with a piece that is no key of the legal-move
\* map of the player to move, or a move that is not among the piece's legal
\* moves, returns False and leaves board, turn, history and winner as they
\* were; session.make_move raises for a path that is the steps of no legal move
\* of the piece on the start square
C7_OnlyLegalMovesApplied ==
    /\ (last.op = "Game.makeMove" /\ ~IsLegal(last.pre, last.piece, last.move))
          => (last.returned = "False" /\ seen(game) = seen(last.pre))
    /\ (last.op = "session.make_move"
        /\ LET piece == getPiece(last.pre.bd, last.start[1], last.start[2])
           IN ~\E move \in UNION {Range(LegalMoves(last.pre)[i].val) :
                                     i \in DOMAIN LegalMoves(last.pre)} :
                 /\ IsLegal(last.pre, piece, move)
                 /\ move.steps = last.steps)
          => (last.raised # "" /\ seen(game) = seen(last.pre))

\* C8: after Game.makeMove and Game.undoMove the board state (size, turn, the
\* pieces with square, kind, colour and id) is what it was before the move,
\* current_player is the mover, winner is None and zobrist_hash is the hash
\* recomputed from the board
C8_UndoRestores ==
    last.op = "Game.undoMove" =>
        /\ to_state(board, pieces) = last.pre.state
        /\ current_player = last.pre.current_player
        /\ winner = NoColor
        /\ board.zobrist_hash = compute_board_hash(board, pieces)

(* ---------------- what the claims about the search speak about ---------------- *)
\* the (piece, move) pairs of a map of moves
PairsOf(moves_map) ==
    UNION {{<<moves_map[i].key, m>> : m \in Range(moves_map[i].val)} : i \in DOMAIN moves_map}

\* the moves of the player to move on the board a call of select_move was given
RootMoves(call) ==
    getAllValidMoves(call.pre.bd, call.pre.ps, call.pre.game.current_player).moves

\* the root moves in the order select_move searches them
OrderedRoot(call) ==
    _order_moves(RootMoves(call), call.pre.bd, call.pre.ps, call.options,
                 _root_tt_move(call.pre.bd, call.pre.tt, call.pre.game.current_player,
                               call.options))

\* the deadline passed before the first call of _search_root had finished a root move
ExpiredAtOnce(call) ==
    /\ call.searches # <<>>
    /\ ~call.searches[1].completed
    /\ call.searches[1].finished = 0

\* C11: a call of minimax select_move that is not cancelled returns None
\* exactly when the player to move has no legal move, and otherwise a
\* (piece, move) pair of a legal move of the root position; when the deadline
\* passes before the first iteration has finished a root move, the pair is
\* the first of the ordered root moves
C11_ReturnsLegalMove ==
    (search.op = "select_move" /\ search.raised # "CancelledError")
        => /\ search.raised = ""
           /\ (search.returned = None)
                  <=> ~HasMove(search.pre.bd, search.pre.ps, search.pre.game.current_player)
           /\ search.returned # None => search.returned \in PairsOf(RootMoves(search))
           /\ ExpiredAtOnce(search) => search.returned = OrderedRoot(search)[1]

C11_Witness ==
    /\ search.op = "select_move"
    /\ search.raised = ""
    /\ ExpiredAtOnce(search)
    /\ Len(OrderedRoot(search)) > 1
    /\ search.returned = OrderedRoot(search)[1]

\* the calls of _search_root of a call of select_move that ran to the end of
\* their root moves
CompletedSearches(call) == {i \in DOMAIN call.searches : call.searches[i].completed}

\* C12: with iterative deepening the passing of the deadline never leaves
\* select_move as an exception; when some iteration completed, the call
\* returns the choice of the deepest completed iteration, so the choice of an
\* iteration the deadline cut short never replaces it
C12_DeepestCompletedIteration ==
    (search.op = "select_move" /\ search.use_iterative_deepening)
        => /\ search.raised # "_TimeUp"
           /\ (search.raised = "" /\ CompletedSearches(search) # {})
                  => LET deepest == MaxOf(CompletedSearches(search))
                     IN /\ search.searches[deepest].depth = deepest
                        /\ search.returned = search.searches[deepest].choice

C12_Witness ==
    /\ search.op = "select_move"
    /\ search.use_iterative_deepening
    /\ search.raised = ""
    /\ Len(search.searches) = 2
    /\ search.searches[1].completed
    /\ ~search.searches[2].completed
    /\ search.searches[2].choice # search.searches[1].choice
    /\ search.returned = search.searches[1].choice

\* the look at which a call first found its cancel event set: none (<<>>) or <<k>>
CancelSeenAt(call) == call.timing.cancel_at

EntriesFor(table, color) == SelectSeq(table, LAMBDA e : e.key[2] = color)

\* C16: _alphabeta keeps its entries under (hash, maximizing colour): a call
\* for one colour leaves every entry of the other colour in the table as it
\* was and writes none under the other colour, every entry carries its own
\* key, the call returns what it returns on a table without the other
\* colour's entries, and after a call on a position that is not over, without
\* the null move, the table holds an entry under (hash, colour of the call)
C16_TableKeyedByPerspective ==
    search.op = "_alphabeta"
        => LET own == search.maximizing_color
               other == _opponent(search.maximizing_color)
           IN /\ \A i \in DOMAIN search.pre.tt :
                    search.pre.tt[i].key[2] = other
                        => /\ DictHas(tt, search.pre.tt[i].key)
                           /\ DictGet(tt, search.pre.tt[i].key) = search.pre.tt[i].val
              /\ \A i \in DOMAIN tt :
                    /\ tt[i].val.key = tt[i].key
                    /\ tt[i].key[2] \in Colors
                    /\ tt[i].key[2] = other => DictHas(search.pre.tt, tt[i].key)
              /\ search.score
                    = _alphabeta(Searching(search.pre.bd, search.pre.ps,
                                           EntriesFor(search.pre.tt, own)),
                                 search.depth, own, -inf, inf, search.options, 0,
                                 Timing(<<>>, <<>>)).score
              /\ (is_game_over(search.pre.bd, search.pre.ps).winner = NoColor
                  /\ ~search.options.use_null_move)
                    => DictHas(tt, <<board.zobrist_hash, own>>)

C16_Witness ==
    /\ search.op = "_alphabeta"
    /\ search.maximizing_color = BLACK
    /\ DictHas(search.pre.tt, <<board.zobrist_hash, WHITE>>)
    /\ ~DictHas(search.pre.tt, <<board.zobrist_hash, BLACK>>)
    /\ DictHas(tt, <<board.zobrist_hash, WHITE>>)
    /\ DictHas(tt, <<board.zobrist_hash, BLACK>>)
    /\ DictGet(tt, <<board.zobrist_hash, WHITE>>).score
           # DictGet(tt, <<board.zobrist_hash, BLACK>>).score
    /\ DictGet(tt, <<board.zobrist_hash, WHITE>>).depth >= search.depth

\* C19: a call of select_move without iterative deepening ignores
\* time_limit_ms: it passes no deadline to _search_root, and a call that is
\* not cancelled searches every root move to the depth asked for
C19_NoDeadlineWithoutIterativeDeepening ==
    (search.op = "select_move" /\ ~search.use_iterative_deepening)
        => /\ ~search.deadline
           /\ search.raised = "" => \A i \in DOMAIN search.searches :
                                        /\ search.searches[i].completed
                                        /\ search.searches[i].depth = search.depth

\* C20: Game.reset, with a board size or without, leaves the board of that
\* size as it is set up at the start, White to move, the history empty, no
\* winner, and the transposition table empty
C20_ResetClearsTable ==
    search.op = "Game.reset"
        => LET size == IF search.board_size # <<>> THEN search.board_size[1]
                       ELSE search.pre.bd.boardSize
           IN /\ to_state(board, pieces) = to_state(NewBoard(size).bd, NewBoard(size).ps)
              /\ board.turn = WHITE
              /\ board.zobrist_hash = compute_board_hash(board, pieces)
              /\ current_player = WHITE
              /\ move_history = <<>>
              /\ winner = NoColor
              /\ tt = <<>>

(* ---------------- the move cache while pieces change places ---------------- *)
CacheStartPositions ==
    { \* 8x8 two white men side by side (test_moves_cache_is_identity_safe)
      Position(8, WHITE, << M(5, 0, WHITE), M(5, 2, WHITE) >>),
      \* 8x8 the same two men with two black men to answer them
      Position(8, WHITE, << M(5, 0, WHITE), M(5, 2, WHITE), M(2, 1, BLACK), M(2, 5, BLACK) >>),
      \* 10x10 majority capture, three black men
      Position(10, WHITE, << M(6, 1, WHITE), M(5, 2, BLACK), M(3, 4, BLACK), M(7, 2, BLACK) >>) }

InitCache ==
    /\ \E p \in CacheStartPositions : board = p.bd /\ pieces = p.ps
    /\ undo_stack = <<>>
    /\ before = <<>>
    /\ last = NoCall
    /\ NoGame

\* two pieces of one colour and one kind put on each other's squares by hand,
\* as the test does: board.board[r][c] = b; b.move(r, c); and the same for a
SwapPieces ==
    /\ undo_stack = <<>>
    /\ last.raised = ""
    /\ \E a \in OnBoardOf(board), b \in OnBoardOf(board) :
          /\ a < b
          /\ pieces[a].color = pieces[b].color
          /\ pieces[a].is_king = pieces[b].is_king
          /\ board' = [board EXCEPT !.board[pieces[a].row + 1][pieces[a].col + 1] = b,
                                    !.board[pieces[b].row + 1][pieces[b].col + 1] = a]
          /\ pieces' = move_piece(move_piece(pieces, a, pieces[b].row, pieces[b].col),
                                  b, pieces[a].row, pieces[a].col)
          /\ last' = [NoCall EXCEPT !.op = "swap", !.color = pieces[a].color,
                                    !.steps = <<position(pieces[a]), position(pieces[b])>>]
    /\ UNCHANGED <<undo_stack, before>>
    /\ UNCHANGED gameVars

NextCache ==
    \/ \E color \in Colors : GetAllValidMoves(color)
    \/ MakeMove
    \/ UnmakeMove
    \/ SwapPieces

CacheSpec == InitCache /\ [][NextCache]_vars

\* what board.getAllValidMoves(color) returns in the state, and what it
\* returns there with board.use_move_cache = False
MovesWithCache(color) == getAllValidMoves(board, pieces, color).moves

MovesWithoutCache(color) ==
    getAllValidMoves([board EXCEPT !.use_move_cache = FALSE], pieces, color).moves

\* C17: whatever the move cache holds, getAllValidMoves returns for either
\* colour the map it returns with the cache switched off, entry by entry in
\* the same order, and every key of the map is the piece that stands on the
\* start square of its moves
C17_CacheIsTransparent ==
    /\ \A color \in Colors :
          /\ MovesWithCache(color) = MovesWithoutCache(color)
          /\ \A i \in DOMAIN MovesWithCache(color) :
                LET entry == MovesWithCache(color)[i]
                IN /\ entry.key # NoPiece
                   /\ \A m \in Range(entry.val) :
                         /\ m.start = position(pieces[entry.key])
                         /\ getPiece(board, m.start[1], m.start[2]) = entry.key
    /\ last.op = "getAllValidMoves" => last.moves = MovesWithoutCache(last.color)

\* two pieces have changed places since the cache took the moves of the
\* position in, and the moves of both are among those it holds
C17_Witness ==
    /\ last.op = "swap"
    /\ board.use_move_cache
    /\ DictHas(board.moves_cache, moves_cache_key(board, last.color))
    /\ \A sq \in Range(last.steps) :
          DictHas(DictGet(board.moves_cache, moves_cache_key(board, last.color)), sq)
    /\ \E i \in DOMAIN MovesWithCache(last.color) :
          position(pieces[MovesWithCache(last.color)[i].key]) = last.steps[1]

\* C18: the move cache never holds more than moves_cache_max_entries
\* entries, and a call of getAllValidMoves that finds the cache full and the
\* position not in it drops the oldest entry and stores the new one
C18_OldestEvictedWhenFull ==
    [][(/\ last'.op = "getAllValidMoves"
        /\ board.use_move_cache
        /\ Len(board.moves_cache) >= board.moves_cache_max_entries
        /\ ~DictHas(board.moves_cache, moves_cache_key(board, last'.color)))
       => /\ Len(board'.moves_cache) <= board.moves_cache_max_entries
          /\ DictHas(board'.moves_cache, moves_cache_key(board, last'.color))
          /\ ~DictHas(board'.moves_cache, board.moves_cache[1].key)]_vars

(* ---------------- server/session.py: calls of the session that overlap ---------------- *)
MaxJobs == 2
MaxMutations == 1
MaxVersion == 1

\* a call of a method of the session that has not returned: the method (op),
\* where the thread that runs it stands (pc), the locals of run_ai_move, how
\* it ended (outcome), and overtaken: whether reset, set_variant,
\* configure_players, make_move, undo_move or run_ai_move has been called
\* since this call started its job
NoRequest ==
    [op |-> "", pc |-> "", payload |-> None, job_id |-> 0, cancel_event |-> "none",
     color |-> NoColor, commit_now |-> FALSE, start_version |-> 0, snapshot |-> None,
     decision |-> None, outcome |-> "", overtaken |-> FALSE]

\* Event.set() on the object session._ai_cancel_event refers to, seen through
\* the local cancel_event of the job that was handed the object
event_set(reqs, s) ==
    [i \in DOMAIN reqs |->
        IF reqs[i].op = "run_ai_move" /\ reqs[i].job_id = s._ai_active_job_id
           /\ s._ai_cancel_event # "none"
        THEN [reqs[i] EXCEPT !.cancel_event = "set"] ELSE reqs[i]]

\* GameSession._start_ai_job
_start_ai_job(s) ==
    [s EXCEPT !._ai_job_seq = s._ai_job_seq + 1, !._ai_active_job_id = s._ai_job_seq + 1,
              !._ai_cancel_event = "clear"]

\* Board.copy: the pieces cloned onto a new board, its hash built from them,
\* its move cache empty
copy(bd, ps) ==
    [bd EXCEPT !.zobrist_hash = compute_board_hash(bd, ps), !.moves_cache = <<>>]

_clear_pending_ai_move(s, color) == [s EXCEPT !.pending_ai_moves[color] = None]

\* run_ai_move under the lock, before the search: the locals it leaves, or
\* the exception
run_ai_move_snapshot(job, s, g) ==
    LET color == IF job.payload.color = NoColor THEN g.current_player ELSE job.payload.color
        commit_now == job.payload.commitImmediately
    IN IF color # g.current_player
       THEN [job EXCEPT !.pc = "done", !.color = color,
                        !.outcome = "ValueError: color is not on turn"]
       ELSE IF ~commit_now /\ s.pending_ai_moves[color] # None
       THEN [job EXCEPT !.pc = "done", !.color = color, !.commit_now = commit_now,
                        !.outcome = "RuntimeError: already pending"]
       ELSE [job EXCEPT !.pc = "select", !.color = color, !.commit_now = commit_now,
                        !.start_version = s._state_version,
                        !.snapshot = [bd |-> copy(g.bd, g.ps), ps |-> g.ps,
                                      current_player |-> g.current_player,
                                      winner |-> g.winner, move_history |-> <<>>]]

\* of the legal moves of the side to move in g, in the order getValidMoves
\* hands them out, the first and the last
first_and_last_move(g) ==
    With(getValidMoves(g).moves, LAMBDA moves :
        With(ConcatAll([i \in DOMAIN moves |-> moves[i].val]), LAMBDA all :
            {all[i] : i \in {1, Len(all)} \cap DOMAIN all}))

\* the moves controller.select_move returns on the snapshot in the model: a
\* legal move of the side to move, the first or the last of them
decisions(snap) == first_and_last_move(snap)

\* the payloads of make_move in the model: the first and the last legal move,
\* the first with its steps left out, and the first from the square it ends on
move_payloads(g) ==
    UNION {{<<m.start, m.steps>>, <<m.start, <<>>>>, <<end(m), m.steps>>} :
           m \in first_and_last_move(g)}

\* the first test of the commit step with the job, the event and the version left out
stale_never(job, s) == FALSE

\* the first test of the commit step: another job is the active one, the
\* event of the job is set, or the state version has moved on
stale(job, s) ==
    \/ job.job_id # s._ai_active_job_id
    \/ job.cancel_event = "set"
    \/ job.start_version # s._state_version

\* the job at the end of run_ai_move, with the session and the game it leaves
Ended(job, outcome, s, g) ==
    [job |-> [job EXCEPT !.pc = "done", !.outcome = outcome], s |-> s, g |-> g]

Dropped(job, s, g) == Ended(job, "dropped", s, g)

\* run_ai_move under the lock, after the search
run_ai_move_commit(job, s, g) ==
    IF stale(job, s) THEN Dropped(job, s, g)
    ELSE IF job.color # g.current_player THEN Dropped(job, s, g)
    ELSE IF ~job.commit_now
    THEN Ended(job, "pending", [s EXCEPT !.pending_ai_moves[job.color] = job.decision], g)
    ELSE LET s1 == _clear_pending_ai_move(s, job.color)
             piece == _require_piece(g, job.decision.start[1], job.decision.start[2])
         IN IF piece = NoPiece THEN Ended(job, "ValueError: no piece", s1, g)
            ELSE IF g.ps[piece].color # job.color THEN Dropped(job, s1, g)
            ELSE With(makeMove(g, piece, job.decision), LAMBDA made :
                    IF made.raised # "" THEN Ended(job, made.raised, s1, made.g)
                    ELSE IF made.returned # "True"
                    THEN Ended(job, "RuntimeError: move execution failed", s1, made.g)
                    ELSE Ended(job, "committed",
                               [s1 EXCEPT !._state_version = s1._state_version + 1], made.g))

\* GameSession.perform_ai_move(payload)
perform_ai_move(s, g, color) ==
    LET cleared == _clear_pending_ai_move(s, color)
        pending == s.pending_ai_moves[color]
    IN IF color # g.current_player THEN SessionRaised("ValueError: not this color's turn", cleared, g)
       ELSE IF pending = None THEN SessionRaised("ValueError: no pending move", s, g)
       ELSE LET piece == _require_piece(g, pending.start[1], pending.start[2])
            IN IF piece = NoPiece
               THEN SessionRaised("RuntimeError: pending move references a missing piece", cleared, g)
               ELSE IF g.ps[piece].color # color
               THEN SessionRaised("RuntimeError: pending move references the wrong piece", cleared, g)
               ELSE With(makeMove(g, piece, pending), LAMBDA made :
                       IF made.raised # "" THEN SessionRaised(made.raised, s, made.g)
                       ELSE IF made.returned # "True"
                       THEN SessionRaised("RuntimeError: move execution failed", cleared, made.g)
                       ELSE SessionRaised("", cleared, made.g))

\* GameSession.reset(payload) and set_variant(payload) once they hold the
\* lock: variant is "" when reset is given none
reset_locked(s, g, variant) ==
    LET s1 == IF variant # "" THEN [s EXCEPT !.variant = variant] ELSE s
    IN SessionRaised("", _clear_pending_ai_moves([s1 EXCEPT !._state_version = s1._state_version + 1]),
                     reset(g, <<VARIANT_TO_SIZE[s1.variant]>>))

\* GameSession.configure_players(payload) once it holds the lock: config is
\* the set of colours the payload has settings for
configure_players_locked(s, g, config) ==
    IF config = {} THEN SessionRaised("", s, g)
    ELSE SessionRaised("", _clear_pending_ai_moves([s EXCEPT !._state_version = s._state_version + 1]), g)

\* GameSession.undo_move() once it holds the lock
undo_move_locked(s, g) ==
    IF g.move_history = <<>> THEN SessionRaised("ValueError: no moves to undo", s, g)
    ELSE SessionRaised("", _clear_pending_ai_moves([s EXCEPT !._state_version = s._state_version + 1]),
                       undoMove(g))

\* the boards a session starts on: GameSession() has a game on the 8x8 board
\* as set up; the tests put a board of their own in its place
SessionStartPositions ==
    { NewBoard(VARIANT_TO_SIZE[GameSession.variant]),
      \* 8x8 neither side can move (test_run_ai_move_terminal_position_sets_winner)
      Position(8, WHITE, << M(0, 1, WHITE), M(7, 0, BLACK) >>) }

\* GameSession(), no call yet
InitSession ==
    /\ \E p \in SessionStartPositions : board = p.bd /\ pieces = p.ps
    /\ undo_stack = <<>>
    /\ before = <<>>
    /\ last = NoCall
    /\ NoGame

\* what a step under the lock leaves: the game g, the session s, the calls reqs
SetSession(g, s, reqs) ==
    /\ board' = g.bd
    /\ pieces' = Collect(g.ps, Referenced(g.bd, last, <<>>, g.move_history))
    /\ current_player' = g.current_player
    /\ winner' = g.winner
    /\ move_history' = g.move_history
    /\ session' = s
    /\ requests' = reqs
    /\ UNCHANGED <<last, undo_stack, before, undone, tt, search>>

\* what a step leaves that does not touch the game
SetJobs(s, reqs) ==
    /\ session' = s
    /\ requests' = reqs
    /\ UNCHANGED <<board, pieces, undo_stack, before, last, current_player, winner,
                   move_history, undone, tt, search>>

\* the jobs under way learn that a call has begun
overtake(reqs) ==
    [i \in DOMAIN reqs |->
        IF reqs[i].op = "run_ai_move"
        THEN [reqs[i] EXCEPT !.overtaken = TRUE] ELSE reqs[i]]

\* the calls under way with the i-th put at req, or without it once it has
\* returned or raised
Stepped(reqs, i, req) ==
    IF req.pc = "done" THEN SubSeq(reqs, 1, i - 1) \o SubSeq(reqs, i + 1, Len(reqs))
    ELSE [reqs EXCEPT ![i] = req]

At(op, pc) == {i \in DOMAIN requests : requests[i].op = op /\ requests[i].pc = pc}

\* session.run_ai_move(payload), its first line: job_id, cancel_event =
\* self._start_ai_job(); the payload names no colour (NoColor) or Black
StartAiJob ==
    /\ session._ai_job_seq < MaxJobs
    /\ \E color \in {NoColor, BLACK}, commitImmediately \in BOOLEAN :
          SetJobs(_start_ai_job(session),
                  Append(overtake(event_set(requests, session)),
                         [NoRequest EXCEPT !.op = "run_ai_move", !.pc = "snapshot",
                              !.payload = [color |-> color, commitImmediately |-> commitImmediately],
                              !.job_id = _start_ai_job(session)._ai_active_job_id,
                              !.cancel_event = "clear"]))

\* run_ai_move: the lines under the lock that end with the snapshot
JobSnapshot ==
    \E i \in At("run_ai_move", "snapshot") :
       SetJobs(session, Stepped(requests, i, run_ai_move_snapshot(requests[i], session, game)))

\* how controller.select_move(snapshot, cancel_event) may end for the job:
\* with CancelledError if the event is set, else and also then with a move,
\* or with None where the snapshot has no move
select_move_ends(job) ==
    (IF job.cancel_event = "set" THEN {[job EXCEPT !.pc = "done", !.outcome = "cancelled"]} ELSE {})
    \cup (IF decisions(job.snapshot) = {}
          THEN {[job EXCEPT !.pc = "done", !.outcome = "RuntimeError: could not choose a move"]}
          ELSE {[job EXCEPT !.pc = "commit", !.decision = m] : m \in decisions(job.snapshot)})

\* run_ai_move: the search, outside the lock
JobSelect ==
    \E i \in At("run_ai_move", "select") :
       \E req \in select_move_ends(requests[i]) :
          SetJobs(session, Stepped(requests, i, req))

\* run_ai_move: the lines under the lock after the search
JobCommit ==
    \E i \in At("run_ai_move", "commit") :
       \E res \in {run_ai_move_commit(requests[i], session, game)} :
          SetSession(res.g, res.s, Stepped(requests, i, res.job))

\* the methods that call cancel_ai() before they take the lock
Mutators == {"reset", "set_variant", "configure_players", "make_move", "undo_move"}

\* reset, set_variant, configure_players, make_move, undo_move: the first
\* line, self.cancel_ai()
BeginMutation ==
    /\ session._state_version < MaxVersion
    /\ Cardinality({i \in DOMAIN requests : requests[i].op \in Mutators}) < MaxMutations
    /\ \E op \in Mutators :
          SetJobs(cancel_ai(session),
                  Append(overtake(event_set(requests, session)),
                         [NoRequest EXCEPT !.op = op, !.pc = "lock"]))

\* the rest of a call that began with cancel_ai(): what it does under the
\* lock, and the call is over
Locked(i, res) == SetSession(res.g, res.s, Stepped(requests, i, [requests[i] EXCEPT !.pc = "done"]))

\* session.reset(payload), under the lock
ResetLocked ==
    \E i \in At("reset", "lock") : \E variant \in {"", "british", "international"} :
       Locked(i, reset_locked(session, game, variant))

\* session.set_variant(payload), under the lock
SetVariantLocked ==
    \E i \in At("set_variant", "lock") : \E variant \in {"international"} :
       Locked(i, reset_locked(session, game, variant))

\* session.configure_players(payload), under the lock
ConfigurePlayersLocked ==
    \E i \in At("configure_players", "lock") : \E config \in {{}, {WHITE}} :
       Locked(i, configure_players_locked(session, game, config))

\* session.make_move(payload), under the lock: a payload that is accepted or
\* refused on the game as the lock finds it
MakeMoveLocked ==
    \E i \in At("make_move", "lock") : \E payload \in move_payloads(game) :
       Locked(i, make_move_locked(session, game, payload[1], payload[2]))

\* session.undo_move(), under the lock
UndoMoveLocked ==
    \E i \in At("undo_move", "lock") : Locked(i, undo_move_locked(session, game))

\* session.perform_ai_move(payload): it takes the lock only
PerformAiMove ==
    \E color \in Colors :
       \E res \in {perform_ai_move(session, game, color)} :
          SetSession(res.g, res.s, requests)

NextSession ==
    \/ StartAiJob
    \/ JobSnapshot
    \/ JobSelect
    \/ JobCommit
    \/ BeginMutation
    \/ ResetLocked
    \/ SetVariantLocked
    \/ ConfigurePlayersLocked
    \/ MakeMoveLocked
    \/ UndoMoveLocked
    \/ PerformAiMove

SessionSpec == InitSession /\ [][NextSession]_vars

\* the step is the commit step of the job that stands i-th among the calls
CommitStepOf(i) ==
    /\ i \in At("run_ai_move", "commit")
    /\ requests' = Stepped(requests, i, [requests[i] EXCEPT !.pc = "done"])

\* the step changes the board, adds to the history or stores a pending move
CommitsSomething ==
    \/ to_state(board', pieces') # to_state(board, pieces)
    \/ move_history' # move_history
    \/ \E c \in Colors : session'.pending_ai_moves[c] \notin {None, session.pending_ai_moves[c]}

\* C15: the commit step of a job changes no square, adds no history entry and
\* stores no pending move if reset, set_variant, configure_players, make_move,
\* undo_move or a newer run_ai_move has been called since the job started;
\* where it does any of these the job is the one started last, the state
\* version is the one it took its snapshot at, its colour is to move, and the
\* game stands as in the snapshot
C15_OvertakenJobCommitsNothing ==
    [][\A i \in DOMAIN requests :
          CommitStepOf(i) =>
             /\ requests[i].overtaken => ~CommitsSomething
             /\ CommitsSomething =>
                   /\ requests[i].job_id = session._ai_job_seq
                   /\ requests[i].job_id = session._ai_active_job_id
                   /\ requests[i].start_version = session._state_version
                   /\ requests[i].color = current_player
                   /\ to_state(board, pieces)
                         = to_state(requests[i].snapshot.bd, requests[i].snapshot.ps)]_vars

\* a job stands at its commit step with a move, a call has begun since it
\* started, and neither the state version nor the side to move has changed
C15_Witness ==
    \E i \in At("run_ai_move", "commit") :
       /\ requests[i].overtaken
       /\ requests[i].decision # None
       /\ requests[i].start_version = session._state_version
       /\ requests[i].color = current_player

\* the step is the one run_ai_move takes under the lock before the search,
\* for the job that stands i-th among the calls
SnapshotStepOf(i) ==
    /\ i \in At("run_ai_move", "snapshot")
    /\ session' = session
    /\ requests' = Stepped(requests, i, run_ai_move_snapshot(requests[i], session, game))

\* C21: run_ai_move for the side to move, where that side has no legal move,
\* returns without a call of the controller, and the opponent is the winner
C21_TerminalPositionSetsWinner ==
    [][\A i \in DOMAIN requests :
          (/\ SnapshotStepOf(i)
           /\ requests[i].payload.color \in {NoColor, current_player}
           /\ getValidMoves(game).moves = <<>>)
          => /\ requests' = Stepped(requests, i, [requests[i] EXCEPT !.pc = "done"])
             /\ winner' = OtherColor(current_player)]_vars

(* ---------------- ai/mcts.py: the tree of a single worker ---------------- *)
MaxIterations == 3

MaxRolloutDepth == 2

\* the looks at the cancel event of one iteration among which the event may
\* be found set
MaxPassLooks == 5

\* what 1.0 is for a reward: _normalize_eval divides by 1000.0 a score that
\* evaluate_board gives in units of 1 / (100 * start_total * 20 * max_rank)
reward_one(size) == 1000 * 100 * 2 * _starting_pieces_per_side(size) * one(size)

\* a sum of rewards, kept as whole * 1.0 + part with part short of 1.0 either
\* way, so that it is exact whatever the number of rewards
Value(whole, part) == [whole |-> whole, part |-> part]

\* value + reward
plus(value, reward, size) ==
    LET part == value.part + reward
    IN IF part >= reward_one(size) THEN Value(value.whole + 1, part - reward_one(size))
       ELSE IF part <= -reward_one(size) THEN Value(value.whole - 1, part + reward_one(size))
       ELSE Value(value.whole, part)

\* MCTSNode(parent, move, board_hash): parent is the place of the parent in
\* the list of nodes (0 for None), children the places of the children,
\* untried_moves None or the list in a record
MCTSNode(parent, move, board_hash) ==
    [parent |-> parent, move |-> move, children |-> <<>>, visits |-> 0, value |-> Value(0, 0),
     untried_moves |-> None, board_hash |-> board_hash]

_collect_moves(moves_map) == ConcatAll([i \in DOMAIN moves_map |-> moves_map[i].val])

\* the hash-keyed statistics: None, or the dict of (visits, value) by hash
Stats(entries) == [entries |-> entries]

\* _node_stats with the statistics of the node itself whatever the map holds
_node_stats_of_node(node, stats) == <<node.visits, node.value>>

_node_stats(node, stats) ==
    IF stats = None THEN <<node.visits, node.value>>
    ELSE IF DictHas(stats.entries, node.board_hash) THEN DictGet(stats.entries, node.board_hash)
    ELSE <<0, Value(0, 0)>>

\* max(root.children, key=...): the first of the children that no child
\* exceeds in visits, counted in the node or under its hash in the map
most_visited(nodes, children, stats) ==
    LET key(i) == _node_stats(nodes[children[i]], stats)[1]
        best == CHOOSE i \in DOMAIN children :
                   /\ \A j \in DOMAIN children : key(j) <= key(i)
                   /\ \A j \in 1..(i - 1) : key(j) < key(i)
    IN children[best]

\* the worker on its board: the board and its pieces, the looks it has taken
\* at the cancel event in this iteration, the calls of make_move and
\* unmake_move of this iteration in their order, and the exception it raises
Playing(bd, ps) == [bd |-> bd, ps |-> ps, n |-> 0, log |-> <<>>, exc |-> ""]

\* board.make_move(piece, move) by the worker w: the undo record and w after it
make(w, piece, move) ==
    With(make_move(w.bd, w.ps, piece, move), LAMBDA made :
        [undo |-> made.undo, raised |-> made.raised,
         w |-> [w EXCEPT !.bd = made.bd, !.ps = made.ps, !.exc = made.raised,
                         !.log = IF made.raised # "" THEN @
                                 ELSE Append(@, [op |-> "make_move", undo |-> made.undo])]])

\* board.unmake_move(undo) by the worker w
unmake(w, undo) ==
    With(unmake_move(w.bd, w.ps, undo), LAMBDA back :
        [w EXCEPT !.bd = back.bd, !.ps = back.ps,
                  !.log = Append(@, [op |-> "unmake_move", undo |-> undo])])

\* the undo records taken back first to last
RECURSIVE unmake_in_order(_, _)
unmake_in_order(w, undos) ==
    IF undos = <<>> THEN w ELSE unmake_in_order(unmake(w, undos[1]), Tail(undos))

\* for undo in reversed(undos): board.unmake_move(undo)
RECURSIVE unmake_reversed(_, _)
unmake_reversed(w, undos) ==
    IF undos = <<>> THEN w
    ELSE unmake_reversed(unmake(w, undos[Len(undos)]), SubSeq(undos, 1, Len(undos) - 1))

\* what a function of the worker w returns
Gave(w, value) == [w |-> w, value |-> value]

\* the board of w after a call that filled its move cache
cached(w, bd) == [w EXCEPT !.bd = bd]

\* _normalize_eval(score) of a board of the given size
_normalize_eval(score, size) == MaxOf({-reward_one(size), MinOf({reward_one(size), score})})

\* _normalize_eval(evaluate_board(board, color)), judged being what
\* evaluate_board returned
normalized(w, judged) ==
    Gave(cached(w, judged.bd), _normalize_eval(judged.score, w.bd.boardSize))

normalized_eval(w, color) == normalized(w, evaluate_board(w.bd, w.ps, color))

\* one pass of the loops over the moves of _minimax_eval and of
\* _choose_guided_move: the look at the cancel event, and for a move whose
\* piece is there the move made, the board after it valued for color by
\* _minimax_eval at depth - 1, and the move taken back; the value is in a
\* tuple, <<>> where the pass has none
RECURSIVE tried(_, _, _, _, _)

\* the loop over _collect_moves(moves_map) of the two branches of
\* _minimax_eval from the i-th move on, value being max or min so far;
\* below is what the pass of the i-th move left
RECURSIVE minimax_moves(_, _, _, _, _, _, _)
minimax_next(below, maximizing, moves, i, value, maximizing_color, depth, clock) ==
    minimax_moves(below.w, moves, i + 1,
                  IF below.w.exc # "" \/ below.value = <<>> THEN value
                  ELSE IF maximizing THEN MaxOf({value, below.value[1]})
                  ELSE MinOf({value, below.value[1]}),
                  maximizing_color, depth, clock)

minimax_moves(w, moves, i, value, maximizing_color, depth, clock) ==
    IF w.exc # "" \/ i > Len(moves) THEN Gave(w, value)
    ELSE minimax_next(tried(w, moves[i], maximizing_color, depth, clock),
                      w.bd.turn = maximizing_color, moves, i, value, maximizing_color, depth,
                      clock)

\* _minimax_eval from getAllValidMoves on, moves_map being what it returned
minimax_listed(w, moves_map, maximizing_color, depth, clock) ==
    IF moves_map.moves = <<>> THEN normalized_eval(cached(w, moves_map.bd), maximizing_color)
    ELSE minimax_moves(cached(w, moves_map.bd), _collect_moves(moves_map.moves), 1,
                       IF w.bd.turn = maximizing_color THEN -inf ELSE inf,
                       maximizing_color, depth, clock)

\* _minimax_eval from is_game_over on, over being what it returned
minimax_over(w, over, maximizing_color, depth, clock) ==
    IF over.winner # NoColor
    THEN Gave(cached(w, over.bd),
              IF over.winner = maximizing_color THEN reward_one(w.bd.boardSize)
              ELSE -reward_one(w.bd.boardSize))
    ELSE IF depth <= 0 THEN normalized_eval(cached(w, over.bd), maximizing_color)
    ELSE minimax_listed(cached(w, over.bd), getAllValidMoves(over.bd, w.ps, w.bd.turn),
                        maximizing_color, depth, clock)

\* _minimax_eval(board, maximizing_color, depth, cancel_event)
_minimax_eval(w, maximizing_color, depth, clock) ==
    minimax_over(w, is_game_over(w.bd, w.ps), maximizing_color, depth, clock)

\* the finally block of a pass: the move taken back
tried_back(below, undo) == Gave(unmake(below.w, undo), <<below.value>>)

\* a pass from make_move on, made being what it returned
tried_made(made, color, depth, clock) ==
    IF made.raised # "" THEN Gave(made.w, <<>>)
    ELSE tried_back(_minimax_eval(made.w, color, depth - 1, clock), made.undo)

\* a pass from its look at the cancel event on
tried_looked(looked, move, color, depth, clock) ==
    IF looked.exc # "" \/ getPiece(looked.bd, move.start[1], move.start[2]) = NoPiece
    THEN Gave(looked, <<>>)
    ELSE tried_made(make(looked, getPiece(looked.bd, move.start[1], move.start[2]), move),
                    color, depth, clock)

tried(w, move, color, depth, clock) ==
    tried_looked(raise_if_cancelled(w, clock), move, color, depth, clock)

\* the loop of _choose_guided_move over the moves from the i-th on; below is
\* what the pass of the i-th move left
RECURSIVE guided_moves(_, _, _, _, _, _, _, _)
guided_next(below, moves, i, best_move, best_score, mover, depth, clock) ==
    IF below.w.exc = "" /\ below.value # <<>> /\ below.value[1] > best_score
    THEN guided_moves(below.w, moves, i + 1, moves[i], below.value[1], mover, depth, clock)
    ELSE guided_moves(below.w, moves, i + 1, best_move, best_score, mover, depth, clock)

guided_moves(w, moves, i, best_move, best_score, mover, depth, clock) ==
    IF w.exc # "" \/ i > Len(moves) THEN Gave(w, best_move)
    ELSE guided_next(tried(w, moves[i], mover, depth, clock), moves, i, best_move, best_score,
                     mover, depth, clock)

\* _choose_guided_move(board, moves_map, depth, cancel_event)
_choose_guided_move(w, moves_map, depth, clock) ==
    IF _collect_moves(moves_map) = <<>> THEN Gave(w, None)
    ELSE guided_moves(w, _collect_moves(moves_map), 1, None, -inf, w.bd.turn, depth, clock)

_is_promotion_move(bd, ps, move) ==
    LET piece == getPiece(bd, move.start[1], move.start[2])
    IN IF piece = NoPiece \/ ps[piece].is_king THEN FALSE
       ELSE end(move)[1] = (IF ps[piece].color = WHITE THEN 0 ELSE bd.boardSize - 1)

\* rng.choice(buffer), pick being what the generator draws
choice(buffer, pick) == buffer[(pick % Len(buffer)) + 1]

\* _choose_rollout_move from move_buffer.clear() on
choose_from_buffers(w, moves_map, pick) ==
    LET move_buffer == _collect_moves(moves_map)
        capture_buffer == SelectSeq(move_buffer, is_capture)
        promotion_buffer ==
            SelectSeq(move_buffer,
                      LAMBDA move : ~is_capture(move) /\ _is_promotion_move(w.bd, w.ps, move))
    IN IF capture_buffer # <<>> THEN Gave(w, choice(capture_buffer, pick))
       ELSE IF promotion_buffer # <<>> THEN Gave(w, choice(promotion_buffer, pick))
       ELSE Gave(w, choice(move_buffer, pick))

\* _choose_rollout_move after _choose_guided_move has returned guided
chosen_guided(guided, moves_map, pick) ==
    IF guided.w.exc # "" \/ guided.value # None THEN guided
    ELSE choose_from_buffers(guided.w, moves_map, pick)

\* _choose_rollout_move(board, moves_map, rng, rollout_policy, guidance_depth, ...)
_choose_rollout_move(w, moves_map, pick, rollout_policy, guidance_depth, clock) ==
    IF rollout_policy \in {"minimax_guided", "heuristic"}
    THEN chosen_guided(_choose_guided_move(w, moves_map,
                                           IF rollout_policy = "minimax_guided"
                                           THEN guidance_depth ELSE 1,
                                           clock),
                       moves_map, pick)
    ELSE choose_from_buffers(w, moves_map, pick)

\* _reward(winner, root_player) on a board of the given size
_reward(winning, root_player, size) ==
    IF winning = root_player THEN reward_one(size)
    ELSE IF winning = _opponent(root_player) THEN -reward_one(size)
    ELSE 0

\* _leaf_value(board, root_player, guidance_depth, leaf_evaluation, cancel_event)
_leaf_value(w, root_player, guidance_depth, leaf_evaluation, clock) ==
    IF leaf_evaluation = "heuristic_eval" THEN normalized_eval(w, root_player)
    ELSE IF leaf_evaluation = "minimax_eval"
    THEN _minimax_eval(w, root_player, guidance_depth, clock)
    ELSE Gave(w, 0)

\* what the try block of _rollout leaves: the worker, the undo buffer and the
\* value it returns
Rolled(w, undo_buffer, value) == [w |-> w, undo_buffer |-> undo_buffer, value |-> value]

\* the loop of _rollout over range(rollout_depth) from ply on, and the return
\* after it; a holds the arguments of the search
RECURSIVE rollout_plies(_, _, _, _, _, _, _)

\* return _leaf_value(...), valued being what _leaf_value returned
rolled_leaf(valued, undo_buffer) == Rolled(valued.w, undo_buffer, valued.value)

rollout_leaf(w, undo_buffer, root_player, a, clock) ==
    rolled_leaf(_leaf_value(w, root_player, a.guidance_depth, a.leaf_evaluation, clock),
                undo_buffer)

\* a pass of the loop from make_move on, made being what it returned
rollout_made(made, undo_buffer, ply, root_player, a, pick, clock) ==
    IF made.raised # "" THEN Rolled(made.w, undo_buffer, 0)
    ELSE rollout_plies(made.w, Append(undo_buffer, made.undo), ply + 1, root_player, a, pick,
                       clock)

\* a pass of the loop after _choose_rollout_move has returned chosen
rollout_chosen(chosen, undo_buffer, ply, root_player, a, pick, clock) ==
    IF chosen.w.exc # "" THEN Rolled(chosen.w, undo_buffer, 0)
    ELSE IF getPiece(chosen.w.bd, chosen.value.start[1], chosen.value.start[2]) = NoPiece
    THEN Rolled(chosen.w, undo_buffer, 0)
    ELSE rollout_made(make(chosen.w,
                           getPiece(chosen.w.bd, chosen.value.start[1], chosen.value.start[2]),
                           chosen.value),
                      undo_buffer, ply, root_player, a, pick, clock)

\* the side to move has no move: others are the moves of its opponent
rollout_blocked(looked, others, undo_buffer, root_player) ==
    Rolled(cached(looked, others.bd), undo_buffer,
           IF others.moves = <<>> THEN 0
           ELSE _reward(_opponent(looked.bd.turn), root_player, looked.bd.boardSize))

\* a pass of the loop from getAllValidMoves on, moves_map being what it returned
rollout_listed(looked, moves_map, undo_buffer, ply, root_player, a, pick, clock) ==
    IF moves_map.moves = <<>>
    THEN rollout_blocked(looked,
                         getAllValidMoves(moves_map.bd, looked.ps, _opponent(looked.bd.turn)),
                         undo_buffer, root_player)
    ELSE IF ply >= (IF a.rollout_cutoff_depth = <<>> THEN a.rollout_depth
                    ELSE a.rollout_cutoff_depth[1])
    THEN rollout_leaf(cached(looked, moves_map.bd), undo_buffer, root_player, a, clock)
    ELSE rollout_chosen(_choose_rollout_move(cached(looked, moves_map.bd), moves_map.moves,
                                             pick, a.rollout_policy, a.guidance_depth, clock),
                        undo_buffer, ply, root_player, a, pick, clock)

\* a pass of the loop from its look at the cancel event on
rollout_looked(looked, undo_buffer, ply, root_player, a, pick, clock) ==
    IF looked.exc # "" THEN Rolled(looked, undo_buffer, 0)
    ELSE rollout_listed(looked, getAllValidMoves(looked.bd, looked.ps, looked.bd.turn),
                        undo_buffer, ply, root_player, a, pick, clock)

rollout_plies(w, undo_buffer, ply, root_player, a, pick, clock) ==
    IF ply >= a.rollout_depth THEN rollout_leaf(w, undo_buffer, root_player, a, clock)
    ELSE rollout_looked(raise_if_cancelled(w, clock), undo_buffer, ply, root_player, a, pick,
                        clock)

\* the finally block of _rollout after its try block has left rolled
rollout_finally(rolled) == Gave(unmake_reversed(rolled.w, rolled.undo_buffer), rolled.value)

\* _rollout(board, root_player, rollout_depth, rng, ...)
_rollout(w, root_player, a, pick, clock) ==
    rollout_finally(rollout_plies(w, <<>>, 0, root_player, a, pick, clock))

\* _ensure_untried_moves(node, board)
_ensure_untried_moves(nodes, node, bd, ps) ==
    IF nodes[node].untried_moves # None THEN [nodes |-> nodes, bd |-> bd]
    ELSE With(getAllValidMoves(bd, ps, bd.turn), LAMBDA moves_map :
            [nodes |-> [nodes EXCEPT ![node].untried_moves = [list |-> _collect_moves(moves_map.moves)]],
             bd |-> moves_map.bd])

\* rng.randrange(len(moves)) drawing idx, and the move at idx handed out and
\* left in the list
pop_random_move_kept(moves, idx) == [move |-> moves[idx + 1], moves |-> moves]

\* _pop_random_move(moves, rng) with idx what rng.randrange(len(moves)) gives
_pop_random_move(moves, idx) ==
    [move |-> moves[idx + 1],
     moves |-> SubSeq([moves EXCEPT ![idx + 1] = moves[Len(moves)]], 1, Len(moves) - 1)]

\* x ** pw_alpha for pw_alpha 0 and 1
power(x, pw_alpha) == IF pw_alpha = 0 THEN 1 ELSE x

\* _can_expand(node, progressive_widening, pw_k, pw_alpha) with pw_k an
\* integer and pw_alpha 0 or 1
_can_expand(node, progressive_widening, pw_k, pw_alpha) ==
    IF ~progressive_widening THEN TRUE
    ELSE Len(node.children) < MaxOf({1, pw_k * power(MaxOf({1, node.visits}), pw_alpha)})

\* the search t of one iteration: the nodes, the node it stands at, the worker
\* and the undo records of the path
Walk(nodes, node, w, path_undos) ==
    [nodes |-> nodes, node |-> node, w |-> w, path_undos |-> path_undos]

\* MCTSNode.best_child in the model: the child the draw names; which child
\* the UCB values favour is left open
best_child(nodes, node, pick) == nodes[node].children[(pick % Len(nodes[node].children)) + 1]

\* the loop of selection and expansion of one iteration, from the node t
\* stands at: every random choice in it is the draw pick; a holds the
\* arguments of the search
RECURSIVE select(_, _, _, _)
select(t, pick, a, clock) ==
    With(raise_if_cancelled(t.w, clock), LAMBDA looked :
    IF looked.exc # "" THEN Walk(t.nodes, t.node, looked, t.path_undos)
    ELSE
    LET e == _ensure_untried_moves(t.nodes, t.node, looked.bd, looked.ps)
        w == cached(looked, e.bd)
        n == e.nodes[t.node]
    IN IF n.untried_moves.list # <<>>
          /\ _can_expand(n, a.progressive_widening, a.pw_k, a.pw_alpha)
       THEN LET popped == _pop_random_move(n.untried_moves.list, pick % Len(n.untried_moves.list))
                nodes1 == [e.nodes EXCEPT ![t.node].untried_moves = [list |-> popped.moves]]
                piece == getPiece(w.bd, popped.move.start[1], popped.move.start[2])
                child == Len(nodes1) + 1
            IN IF piece = NoPiece THEN Walk(nodes1, t.node, w, t.path_undos)
               ELSE With(make(w, piece, popped.move), LAMBDA made :
                       IF made.raised # "" THEN Walk(nodes1, t.node, made.w, t.path_undos)
                       ELSE Walk(Append([nodes1 EXCEPT ![t.node].children = Append(@, child)],
                                        MCTSNode(t.node, popped.move, made.w.bd.zobrist_hash)),
                                 child, made.w, Append(t.path_undos, made.undo)))
       ELSE IF n.children # <<>>
       THEN LET child == best_child(e.nodes, t.node, pick)
                move == e.nodes[child].move
                piece == getPiece(w.bd, move.start[1], move.start[2])
            IN IF piece = NoPiece THEN Walk(e.nodes, child, w, t.path_undos)
               ELSE With(make(w, piece, move), LAMBDA made :
                       IF made.raised # "" THEN Walk(e.nodes, child, made.w, t.path_undos)
                       ELSE select(Walk(e.nodes, child, made.w, Append(t.path_undos, made.undo)),
                                   pick, a, clock))
       ELSE Walk(e.nodes, t.node, w, t.path_undos))

\* the entry of the map for a node visited once more, and the oldest entry
\* dropped where the map has grown past transposition_max_entries
counted(stats, node, reward, transposition_max_entries, size) ==
    IF stats = None THEN None
    ELSE LET was == _node_stats(node, stats)
             entries == DictSet(stats.entries, node.board_hash,
                                <<was[1] + 1, plus(was[2], reward, size)>>)
         IN Stats(IF Len(entries) > transposition_max_entries THEN Tail(entries) ELSE entries)

\* what the backpropagation leaves
Counts(nodes, stats) == [nodes |-> nodes, stats |-> stats]

\* the backpropagation that counts the visit in the node it starts from alone
backpropagate_leaf_only(nodes, stats, current, reward, transposition_max_entries, size) ==
    IF current = 0 THEN Counts(nodes, stats)
    ELSE Counts([nodes EXCEPT ![current].visits = @ + 1,
                              ![current].value = plus(@, reward, size)],
                counted(stats, nodes[current], reward, transposition_max_entries, size))

\* backpropagation from the node at place current up to the root
RECURSIVE backpropagate(_, _, _, _, _, _)
backpropagate(nodes, stats, current, reward, transposition_max_entries, size) ==
    IF current = 0 THEN Counts(nodes, stats)
    ELSE backpropagate([nodes EXCEPT ![current].visits = @ + 1,
                                     ![current].value = plus(@, reward, size)],
                       counted(stats, nodes[current], reward, transposition_max_entries, size),
                       nodes[current].parent, reward, transposition_max_entries, size)

\* the end of a pass of the loop of _search_single: the finally block has
\* taken back the moves of the path, and the search s holds what the pass
\* left, with the node the pass ended at, the reward it counted and the nodes
\* it started with
passed(s, nodes, stats, w, leaf, reward) ==
    [s EXCEPT !.nodes = nodes, !.stats = stats, !.root_board = [bd |-> w.bd, ps |-> w.ps],
              !.raised = w.exc, !.i = IF w.exc = "" THEN s.i + 1 ELSE s.i,
              !.log = w.log, !.leaf = leaf, !.reward = reward, !.pre = s.nodes]

\* the backpropagation of a pass and its finally block, counts being what
\* the backpropagation leaves
counted_pass(s, t, rolled, counts) ==
    passed(s, counts.nodes, counts.stats, unmake_reversed(rolled.w, t.path_undos), t.node,
           rolled.value)

\* a pass after _rollout has returned rolled
rolled_out(s, t, rolled) ==
    IF rolled.w.exc # ""
    THEN passed(s, t.nodes, s.stats, unmake_reversed(rolled.w, t.path_undos), 0, 0)
    ELSE counted_pass(s, t, rolled,
                      backpropagate(t.nodes, s.stats, t.node, rolled.value,
                                    s.transposition_max_entries, s.root_board.bd.boardSize))

\* a pass after its loop of selection and expansion has left t
selected(s, t, pick, clock) ==
    IF t.w.exc # ""
    THEN passed(s, t.nodes, s.stats, unmake_reversed(t.w, t.path_undos), 0, 0)
    ELSE rolled_out(s, t, _rollout(t.w, s.root_player, s, pick, clock))

\* a pass from its first look at the cancel event on
started_pass(s, started, pick, clock) ==
    IF started.exc # "" THEN passed(s, s.nodes, s.stats, started, 0, 0)
    ELSE selected(s, select(Walk(s.nodes, 1, started, <<>>), pick, s, clock), pick, clock)

\* one pass of the loop of _search_single over range(iterations) on the search
\* s: the random choices are pick, and clock tells at which of its looks the
\* pass finds the cancel event set
iteration(s, pick, clock) ==
    started_pass(s, raise_if_cancelled(Playing(s.root_board.bd, s.root_board.ps), clock), pick,
                 clock)

\* the last lines of _search_single: the move of the best child, None without a child
best_move(s) ==
    IF s.nodes[1].children = <<>> THEN None
    ELSE s.nodes[most_visited(s.nodes, s.nodes[1].children, s.stats)].move

\* the boards the tree is grown on
MctsStartPositions ==
    { \* 8x8 a white man with two steps to choose from
      Position(8, WHITE, << M(5, 2, WHITE), M(2, 1, BLACK), M(2, 5, BLACK) >>),
      \* 8x8 two kings that can step back to where they stood
      Position(8, WHITE, << K(4, 3, WHITE), K(1, 6, BLACK) >>),
      \* 8x8 a capture for Black, a double jump for White after it
      Position(8, BLACK, << M(5, 0, WHITE), M(4, 1, BLACK), M(2, 3, BLACK), M(0, 7, BLACK) >>),
      \* 8x8 neither side can move
      Position(8, WHITE, << M(0, 1, WHITE), M(7, 0, BLACK) >>),
      \* 10x10 majority capture
      Position(10, WHITE, << M(6, 1, WHITE), M(5, 2, BLACK), M(3, 4, BLACK), M(7, 2, BLACK) >>) }

\* the rollouts of the search: their depth, the policy, the leaf evaluation,
\* the depth of the guidance and the cutoff, <<>> for None
Rollouts ==
    { [rollout_depth |-> 1, rollout_policy |-> "random",
       leaf_evaluation |-> "random_terminal", guidance_depth |-> 1,
       rollout_cutoff_depth |-> <<>>],
      [rollout_depth |-> MaxRolloutDepth, rollout_policy |-> "random",
       leaf_evaluation |-> "random_terminal", guidance_depth |-> 1,
       rollout_cutoff_depth |-> <<>>],
      [rollout_depth |-> MaxRolloutDepth, rollout_policy |-> "random",
       leaf_evaluation |-> "heuristic_eval", guidance_depth |-> 1,
       rollout_cutoff_depth |-> <<1>>],
      [rollout_depth |-> 1, rollout_policy |-> "heuristic",
       leaf_evaluation |-> "minimax_eval", guidance_depth |-> 1,
       rollout_cutoff_depth |-> <<>>],
      [rollout_depth |-> 1, rollout_policy |-> "minimax_guided",
       leaf_evaluation |-> "heuristic_eval", guidance_depth |-> 2,
       rollout_cutoff_depth |-> <<>>] }

\* the statistics and the widening of the search
Trees ==
    { [use_transposition |-> FALSE, transposition_max_entries |-> 2,
       progressive_widening |-> FALSE, pw_k |-> 1, pw_alpha |-> 0],
      [use_transposition |-> TRUE, transposition_max_entries |-> 2,
       progressive_widening |-> FALSE, pw_k |-> 1, pw_alpha |-> 0],
      [use_transposition |-> TRUE, transposition_max_entries |-> MaxIterations * MaxIterations,
       progressive_widening |-> TRUE, pw_k |-> 1, pw_alpha |-> 1],
      [use_transposition |-> FALSE, transposition_max_entries |-> 2,
       progressive_widening |-> TRUE, pw_k |-> 1, pw_alpha |-> 0] }

\* when the cancel event is found set in a pass: never, or from a look on
Cancels == {[cancel_at |-> <<>>]} \cup {[cancel_at |-> <<n>>] : n \in 0..MaxPassLooks}

InitMcts ==
    /\ \E p \in MctsStartPositions : board = p.bd /\ pieces = p.ps
    /\ undo_stack = <<>>
    /\ before = <<>>
    /\ last = NoCall
    /\ NoGame

SetSearch(s) ==
    /\ search' = s
    /\ UNCHANGED <<board, pieces, undo_stack, before, last, current_player, winner,
                   move_history, session, undone, tt, requests>>

\* _search_single(root_board, root_player, iterations, rollout_depth, ...) up
\* to its loop: the root board is the copy select_move makes, root what it
\* holds when the search starts, game the board of the game at that time
SearchSingle ==
    /\ search.op \in {"none", "_search_single returned"}
    /\ \E rollout \in Rollouts, tree \in Trees :
          SetSearch([op |-> "_search_single", calls |-> 0, iterations |-> MaxIterations,
                     rollout_depth |-> rollout.rollout_depth,
                     rollout_policy |-> rollout.rollout_policy,
                     leaf_evaluation |-> rollout.leaf_evaluation,
                     guidance_depth |-> rollout.guidance_depth,
                     rollout_cutoff_depth |-> rollout.rollout_cutoff_depth,
                     use_transposition |-> tree.use_transposition,
                     transposition_max_entries |-> tree.transposition_max_entries,
                     progressive_widening |-> tree.progressive_widening,
                     pw_k |-> tree.pw_k, pw_alpha |-> tree.pw_alpha,
                     root_player |-> board.turn,
                     root_board |-> [bd |-> copy(board, pieces), ps |-> pieces],
                     root |-> [bd |-> copy(board, pieces), ps |-> pieces],
                     nodes |-> << MCTSNode(0, None, copy(board, pieces).zobrist_hash) >>,
                     stats |-> IF tree.use_transposition THEN Stats(<<>>) ELSE None,
                     i |-> 0, raised |-> "", returned |-> None,
                     game |-> [bd |-> board, ps |-> pieces],
                     log |-> <<>>, leaf |-> 0, reward |-> 0, pre |-> <<>>])

\* one pass of the loop of _search_single
SearchIteration ==
    /\ search.op = "_search_single"
    /\ search.raised = ""
    /\ search.i < search.iterations
    /\ \E pick \in 0..1, clock \in Cancels : SetSearch(iteration(search, pick, clock))

\* _search_single returns
SearchReturn ==
    /\ search.op = "_search_single"
    /\ search.raised = ""
    /\ search.i = search.iterations
    /\ SetSearch([search EXCEPT !.op = "_search_single returned", !.returned = best_move(search)])

NextMcts ==
    \/ SearchSingle
    \/ SearchIteration
    \/ SearchReturn

MctsSpec == InitMcts /\ [][NextMcts]_vars

\* the visits the final choice counts for the root child at place c
VisitsCounted(c) ==
    IF search.use_transposition
    THEN (IF DictHas(search.stats.entries, search.nodes[c].board_hash)
          THEN DictGet(search.stats.entries, search.nodes[c].board_hash)[1] ELSE 0)
    ELSE search.nodes[c].visits

\* C22: what _search_single returns is the move of a root child that no root
\* child exceeds in visits: the visits of the node, or with use_transposition
\* the visits the map holds under the hash of the child's board
C22_ReturnsMostVisitedChild ==
    (search.op = "_search_single returned" /\ search.nodes[1].children # <<>>)
    => \E c \in Range(search.nodes[1].children) :
          /\ search.returned = search.nodes[c].move
          /\ \A o \in Range(search.nodes[1].children) : VisitsCounted(o) <= VisitsCounted(c)

\* the search has returned with two root children, the second of them counted
\* less often than the first
C22_Witness ==
    /\ search.op = "_search_single returned"
    /\ Len(search.nodes[1].children) >= 2
    /\ VisitsCounted(search.nodes[1].children[2]) < VisitsCounted(search.nodes[1].children[1])

\* whether every unmake_move of the log takes back the last move made and
\* not yet taken back, and no move is left at the end; stack holds the undo
\* records of the moves made and not taken back
RECURSIVE Lifo(_, _)
Lifo(log, stack) ==
    IF log = <<>> THEN stack = <<>>
    ELSE IF log[1].op = "make_move" THEN Lifo(Tail(log), Append(stack, log[1].undo))
    ELSE /\ stack # <<>>
         /\ stack[Len(stack)] = log[1].undo
         /\ Lifo(Tail(log), SubSeq(stack, 1, Len(stack) - 1))

\* C38: between the passes of _search_single, when it returns and when it is
\* cancelled, the board it searches on holds the position it started from
\* (squares, pieces, turn, hash); the moves of a pass, those of the path and
\* those of the rollout after them, are taken back last made first; and the
\* board of the game is what it was when the search started
C38_BoardBackAtRoot ==
    search.op \in {"_search_single", "_search_single returned"}
    => /\ snapshot(search.root_board.bd, search.root_board.ps)
          = snapshot(search.root.bd, search.root.ps)
       /\ Lifo(search.log, <<>>)
       /\ board = search.game.bd
       /\ pieces = search.game.ps

\* a pass was cancelled after three moves were made on top of each other,
\* and has taken them back
C38_Witness ==
    /\ search.op = "_search_single"
    /\ search.raised = "CancelledError"
    /\ Len(search.log) >= 6
    /\ \A i \in 1..3 : search.log[i].op = "make_move"

\* the places of the nodes from the node at place at up to the root
RECURSIVE PathToRoot(_, _)
PathToRoot(nodes, at) ==
    IF at = 0 THEN {} ELSE {at} \cup PathToRoot(nodes, nodes[at].parent)

\* the visits of the children of the node at place n, summed
ChildVisits(nodes, n) == sum([i \in DOMAIN nodes[n].children |-> nodes[nodes[n].children[i]].visits])

\* the visits and the value of the node at place n before the last pass
Was(n) ==
    IF n \in DOMAIN search.pre THEN [visits |-> search.pre[n].visits, value |-> search.pre[n].value]
    ELSE [visits |-> 0, value |-> Value(0, 0)]

\* C39: the visits of the root are the number of passes completed; a
\* completed pass has added one visit and one and the same reward, between
\* -1.0 and 1.0, to each node from the node it ended at up to the root and
\* nothing to any other node; and the visits of a node are at least the sum
\* of the visits of its children
C39_PassCountedOnPath ==
    search.op \in {"_search_single", "_search_single returned"}
    => /\ search.nodes[1].visits = search.i
       /\ \A n \in DOMAIN search.nodes : search.nodes[n].visits >= ChildVisits(search.nodes, n)
       /\ search.leaf # 0
          => /\ search.reward >= -reward_one(search.root.bd.boardSize)
             /\ search.reward <= reward_one(search.root.bd.boardSize)
             /\ \A n \in DOMAIN search.nodes :
                   IF n \in PathToRoot(search.nodes, search.leaf)
                   THEN /\ search.nodes[n].visits = Was(n).visits + 1
                        /\ search.nodes[n].value
                           = plus(Was(n).value, search.reward, search.root.bd.boardSize)
                   ELSE /\ search.nodes[n].visits = Was(n).visits
                        /\ search.nodes[n].value = Was(n).value

\* the third pass has ended two moves below the root with a reward that is
\* not 0, in a tree with a node it did not pass
C39_Witness ==
    /\ search.op = "_search_single"
    /\ search.i = 3
    /\ search.leaf # 0
    /\ search.reward # 0
    /\ Cardinality(PathToRoot(search.nodes, search.leaf)) = 3
    /\ Len(search.nodes) > 3

\* the position of the node at place at: the moves from the root to it made
\* on the position the search started from
RECURSIVE PositionOf(_, _)
PositionOf(nodes, at) ==
    IF nodes[at].parent = 0 THEN WithoutCache(search.root)
    ELSE With(PositionOf(nodes, nodes[at].parent), LAMBDA p :
         With(make_move(p.bd, p.ps,
                        getPiece(p.bd, nodes[at].move.start[1], nodes[at].move.start[2]),
                        nodes[at].move),
              LAMBDA made : [bd |-> made.bd, ps |-> made.ps]))

\* the legal moves of the side to move in the position p
LegalMovesAt(p) == _collect_moves(getAllValidMoves(p.bd, p.ps, p.bd.turn).moves)

\* how often x is in the sequence s
Occurrences(s, x) == Cardinality({i \in DOMAIN s : s[i] = x})

\* the moves of the children of the node at place n, then its untried moves
Expanded(nodes, n) ==
    [i \in DOMAIN nodes[n].children |-> nodes[nodes[n].children[i]].move]
    \o nodes[n].untried_moves.list

\* C40: for every node whose untried moves are set, each legal move of the
\* position of the node is once among the moves of its children and its
\* untried moves, and nothing else is among them
C40_ChildrenAndUntriedAreLegalMoves ==
    search.op \in {"_search_single", "_search_single returned"}
    => \A n \in DOMAIN search.nodes :
          search.nodes[n].untried_moves # None
          => LET legal == LegalMovesAt(PositionOf(search.nodes, n))
                 held == Expanded(search.nodes, n)
             IN /\ Len(held) = Len(legal)
                /\ \A move \in Range(legal) :
                      Occurrences(legal, move) = 1 /\ Occurrences(held, move) = 1

\* a node below the root has two children and a move left to try
C40_Witness ==
    /\ search.op = "_search_single"
    /\ \E n \in DOMAIN search.nodes :
          /\ n # 1
          /\ search.nodes[n].untried_moves # None
          /\ Len(search.nodes[n].children) >= 1
          /\ search.nodes[n].untried_moves.list # <<>>
    /\ Len(search.nodes[1].children) >= 2
    /\ search.nodes[1].untried_moves.list # <<>>


(* ---------------- ai/huistic.py: the two perspectives ---------------- *)
\* C23: on every board, the evaluation from White's perspective is the
\* negation of the evaluation from Black's
C23_EvalAntisymmetric ==
    evaluate_board(board, pieces, WHITE).score = -evaluate_board(board, pieces, BLACK).score

\* a board some moves were made on that the evaluation does not score 0
C23_Witness ==
    /\ undo_stack # <<>>
    /\ evaluate_board(board, pieces, WHITE).score > 0
    /\ evaluate_board(board, pieces, BLACK).score < 0

(* ---------------- core/board.py: what make_move changes ---------------- *)
Squares(bd) == (0..(bd.boardSize - 1)) \X (0..(bd.boardSize - 1))

\* C24: make_move of a legal move m of piece p empties m.start and every
\* square of m.captures, puts p (or the King that replaces it) on the end of
\* m, hands the turn over once and leaves every other square as it was; the
\* pieces that left the board are |m.captures| pieces of the opponent
C24_MakeMoveFrame ==
    (last.op = "make_move" /\ last.raised = "") =>
        LET pre == last.pre
            m == last.move
            p == last.piece
            now == getPiece(board, end(m)[1], end(m)[2])
            touched == {m.start, end(m)} \cup Range(m.captures)
            gone == OnBoardOf(pre.bd) \ (OnBoardOf(board) \cup {p})
        IN /\ getPiece(board, m.start[1], m.start[2]) = NoPiece
           /\ \/ now = p
              \/ /\ now \notin DOMAIN pre.ps
                 /\ pieces[now].is_king /\ ~pre.ps[p].is_king
                 /\ pieces[now].color = pre.ps[p].color
           /\ \A sq \in Range(m.captures) : getPiece(board, sq[1], sq[2]) = NoPiece
           /\ board.turn = OtherColor(pre.bd.turn)
           /\ \A sq \in Squares(board) \ touched :
                 getPiece(board, sq[1], sq[2]) = getPiece(pre.bd, sq[1], sq[2])
           /\ Cardinality(OnBoardOf(board)) = Cardinality(OnBoardOf(pre.bd)) - Len(m.captures)
           /\ Cardinality(gone) = Len(m.captures)
           /\ \A h \in gone : pre.ps[h].color = OtherColor(pre.ps[p].color)

\* a move of two jumps or more has been made
C24_Witness ==
    /\ last.op = "make_move" /\ last.raised = ""
    /\ Len(last.move.steps) >= 2
    /\ Len(last.move.captures) >= 2

(* ---------------- core/board.py: the squares and the pieces ---------------- *)
\* C25: after any make_move and unmake_move of legal moves from a starting
\* position, every light square (row + col even) is empty, no piece stands on
\* two squares, and the row and col a piece records are those of the square
\* it stands on
C25_PiecesOnTheirSquares ==
    \A sq \in Squares(board) :
        LET h == getPiece(board, sq[1], sq[2])
        IN /\ (sq[1] + sq[2]) % 2 = 0 => h = NoPiece
           /\ h # NoPiece =>
                 /\ position(pieces[h]) = sq
                 /\ \A other \in Squares(board) :
                       getPiece(board, other[1], other[2]) = h => other = sq

\* a King made by a promotion has been taken off the board again by
\* unmake_move, and the Man stands where it started
C25_Witness ==
    /\ last.op = "unmake_move"
    /\ last.undo.piece_after # last.undo.piece_before
    /\ getPiece(board, last.undo.start[1], last.undo.start[2]) = last.undo.piece_before

(* ---------------- core/pieces.py: the capture sequences ---------------- *)
\* a square a piece that started from origin can come to stand on: a square
\* of the board that is empty or is the one the piece has left
Free(bd, origin, sq) ==
    /\ _is_within_bounds(bd, sq[1], sq[2])
    /\ (getPiece(bd, sq[1], sq[2]) = NoPiece \/ sq = origin)

\* sq holds a piece of the other colour that move has not captured
Capturable(bd, ps, color, move, sq) ==
    /\ getPiece(bd, sq[1], sq[2]) # NoPiece
    /\ ps[getPiece(bd, sq[1], sq[2])].color # color
    /\ sq \notin Range(move.captures)

\* the first square from (r, c) on in direction (dr, dc) that is not free
RECURSIVE FirstNotFree(_, _, _, _, _, _)
FirstNotFree(bd, origin, r, c, dr, dc) ==
    IF Free(bd, origin, <<r, c>>) THEN FirstNotFree(bd, origin, r + dr, c + dc, dr, dc)
    ELSE <<r, c>>

\* piece self, having made the capture move from its square, can capture on
\* from the square the move ends on: a man and a king of the 8x8 board over
\* the next square, a king of the 10x10 board over the first piece of a diagonal
FurtherCapture(bd, ps, self, move) ==
    LET p == ps[self]
        at == end(move)
        dirs == IF p.is_king THEN directions ELSE capture_dirs(bd, p.color)
    IN \E i \in DOMAIN dirs :
          LET dr == dirs[i][1]
              dc == dirs[i][2]
              over == IF p.is_king /\ bd.boardSize # 8
                      THEN FirstNotFree(bd, move.start, at[1] + dr, at[2] + dc, dr, dc)
                      ELSE <<at[1] + dr, at[2] + dc>>
          IN /\ Capturable(bd, ps, p.color, move, over)
             /\ Free(bd, move.start, <<over[1] + dr, over[2] + dc>>)

IsProperPrefix(s, t) == Len(s) < Len(t) /\ SubSeq(t, 1, Len(s)) = s

\* C26: every capture move the generator produces for a piece captures
\* pairwise distinct squares that each hold a piece of the other colour, no
\* capture step is possible from the square it ends on, and it is no proper
\* prefix of another capture move of the piece
C26_CaptureSequencesMaximal ==
    \A h \in OnBoardOf(board) : \A m \in Range(possibleMoves(board, pieces, h)) :
        is_capture(m) =>
            /\ \A i, j \in DOMAIN m.captures : m.captures[i] = m.captures[j] => i = j
            /\ \A i \in DOMAIN m.captures :
                  LET target == getPiece(board, m.captures[i][1], m.captures[i][2])
                  IN target # NoPiece /\ pieces[target].color # pieces[h].color
            /\ ~FurtherCapture(board, pieces, h, m)
            /\ \A m2 \in Range(possibleMoves(board, pieces, h)) :
                  ~IsProperPrefix(m.steps, m2.steps)

(* ---------------- core/pieces.py: the directions of the moves ---------------- *)
Diagonals == {-1, 1} \X {-1, 1}

\* the row a man of the colour moves towards: White towards row 0, Black
\* towards the last row
Forward(color) == IF color = WHITE THEN -1 ELSE 1

IsEmpty(bd, sq) == _is_within_bounds(bd, sq[1], sq[2]) /\ getPiece(bd, sq[1], sq[2]) = NoPiece

HoldsOpponent(bd, ps, color, sq) ==
    /\ getPiece(bd, sq[1], sq[2]) # NoPiece
    /\ ps[getPiece(bd, sq[1], sq[2])].color # color

Plus(sq, d, k) == <<sq[1] + k * d[1], sq[2] + k * d[2]>>

\* the directions a piece steps in and those it captures in
StepDirections(bd, p) ==
    IF p.is_king THEN Diagonals ELSE {d \in Diagonals : d[1] = Forward(p.color)}

CaptureDirections(bd, p) ==
    IF p.is_king \/ bd.boardSize # 8 THEN Diagonals
    ELSE {d \in Diagonals : d[1] = Forward(p.color)}

\* how far a piece goes in one step: a king of the 10x10 board any distance
Reach(bd, p) == IF p.is_king /\ bd.boardSize # 8 THEN 1..(bd.boardSize - 1) ELSE {1}

\* the squares a step without capture takes the piece to from a square: in a
\* direction of the piece, over empty squares only, onto an empty square
StepsFrom(bd, p, from) ==
    UNION {{Plus(from, d, k) :
               k \in {k \in Reach(bd, p) : \A j \in 1..k : IsEmpty(bd, Plus(from, d, j))}} :
           d \in StepDirections(bd, p)}

\* the jumps of the piece from a square, each the square it passes and the
\* square it lands on: in a capture direction of the piece, over empty
\* squares (none for a man and for a king of the 8x8 board) to a piece of the
\* other colour, then over empty squares (none likewise) onto an empty square
JumpsInDirection(bd, ps, p, from, d) ==
    LET near == {k \in Reach(bd, p) :
                    /\ \A j \in 1..(k - 1) : IsEmpty(bd, Plus(from, d, j))
                    /\ _is_within_bounds(bd, Plus(from, d, k)[1], Plus(from, d, k)[2])
                    /\ HoldsOpponent(bd, ps, p.color, Plus(from, d, k))}
    IN UNION {{<<Plus(from, d, k), Plus(from, d, k + n)>> :
                  n \in {n \in Reach(bd, p) :
                            \A j \in 1..n : IsEmpty(bd, Plus(from, d, k + j))}} : k \in near}

JumpsFrom(bd, ps, p, from) ==
    UNION {JumpsInDirection(bd, ps, p, from, d) : d \in CaptureDirections(bd, p)}

\* C27: the moves generated for a piece follow the direction rules.  A move
\* without capture is one step: of a man, one square diagonally forward onto
\* an empty square; of a king of the 8x8 board, one square along any
\* diagonal; of a king of the 10x10 board, any number of empty squares along
\* a diagonal.  Every jump of a capture move passes one piece of the other
\* colour: a man of the 8x8 board along a forward diagonal, a man of the
\* 10x10 board and a king of the 8x8 board along any diagonal, all three from
\* the square next to it onto the square behind it; a king of the 10x10
\* board reaches it over empty squares and lands on a square of the empty
\* run behind it.  Each such step and each such first jump is generated.
C27_DirectionRules ==
    \A h \in OnBoardOf(board) :
        LET p == pieces[h]
            moves == Range(possibleMoves(board, pieces, h))
            captures == {m \in moves : is_capture(m)}
        IN /\ \A m \in moves \ captures :
                 Len(m.steps) = 1 /\ m.steps[1] \in StepsFrom(board, p, m.start)
           /\ \A m \in captures :
                 /\ Len(m.captures) = Len(m.steps)
                 /\ \A i \in DOMAIN m.steps :
                       <<m.captures[i], m.steps[i]>> \in JumpsFrom(board, pieces, p, StoodAt(m, i))
           /\ \A m \in moves : m.start = position(p)
           /\ captures # {} => moves = captures
           /\ captures = {} =>
                 \A to \in StepsFrom(board, p, position(p)) : \E m \in moves : m.steps = <<to>>
           /\ \A jump \in JumpsFrom(board, pieces, p, position(p)) :
                 \E m \in captures : m.captures[1] = jump[1] /\ m.steps[1] = jump[2]

\* on the 10x10 board a king has a capture that starts with a jump over a
\* piece it does not stand next to
C27_Witness ==
    /\ board.boardSize = 10
    /\ last.op = "getAllValidMoves"
    /\ \E i \in DOMAIN last.moves : \E m \in Range(last.moves[i].val) :
          /\ pieces[last.moves[i].key].is_king
          /\ m \in Range(possibleMoves(board, pieces, last.moves[i].key))
          /\ is_capture(m)
          /\ m.captures[1][1] - m.start[1] \notin {-1, 1}

(* ---------------- core/board.py: make_move of the moves generated ---------------- *)
\* C28: on every board reached, make_move raises for none of the moves
\* getAllValidMoves returns for the side to move
C28_GeneratedMovesAccepted ==
    LET moves == getAllValidMoves(board, pieces, board.turn).moves
    IN \A i \in DOMAIN moves : \A m \in Range(moves[i].val) :
          make_move(board, pieces, moves[i].key, m).raised = ""

\* make_move has carried out a capture of two jumps or more that
\* getAllValidMoves returned for a king of the 10x10 board
C28_Witness ==
    /\ last.op = "make_move" /\ last.raised = ""
    /\ last.pre.bd.boardSize = 10
    /\ last.pre.ps[last.piece].is_king
    /\ Len(last.move.captures) >= 2
    /\ \E i \in DOMAIN getAllValidMoves(last.pre.bd, last.pre.ps, last.pre.bd.turn).moves :
          LET entry == getAllValidMoves(last.pre.bd, last.pre.ps, last.pre.bd.turn).moves[i]
          IN entry.key = last.piece /\ last.move \in Range(entry.val)

(* ---------------- core/board.py: make_move that raises ---------------- *)
\* C29: when make_move raises, the board is as it was before the call: every
\* square holds the piece it held, with the row and col it recorded, and the
\* turn and zobrist_hash are the same
C29_RaiseLeavesBoardUnchanged ==
    (last.op = "make_move" /\ last.raised # "") =>
        snapshot(board, pieces) = snapshot(last.pre.bd, last.pre.ps)

(* ---------------- searches with late-move reductions ---------------- *)
MaxReducedDepth == 3

\* the boards a reduced search is run on
ReducedStartPositions ==
    { \* 8x8 one man each, far apart
      Position(8, WHITE, << M(2, 1, WHITE), M(5, 6, BLACK) >>),
      \* 8x8 one white man, two black men
      Position(8, WHITE, << M(2, 1, WHITE), M(5, 6, BLACK), M(5, 2, BLACK) >>),
      \* 8x8 a capture for Black, a double jump for White after it
      Position(8, BLACK, << M(5, 0, WHITE), M(4, 1, BLACK), M(2, 3, BLACK), M(0, 7, BLACK) >>),
      \* 8x8 neither side can move
      Position(8, WHITE, << M(0, 1, WHITE), M(7, 0, BLACK) >>),
      \* 10x10 majority capture
      Position(10, WHITE, << M(6, 1, WHITE), M(5, 2, BLACK), M(3, 4, BLACK), M(7, 2, BLACK) >>) }

\* options with use_lmr set and the least values select_move leaves
\* lmr_min_depth, lmr_min_moves and lmr_reduction at, and one above
ReducedOptions ==
    {[MinimaxOptions(use_alpha_beta, FALSE, FALSE, FALSE, use_null_move) EXCEPT
         !.use_lmr = TRUE, !.lmr_min_depth = lmr_min_depth, !.lmr_min_moves = lmr_min_moves,
         !.lmr_reduction = lmr_reduction] :
     use_alpha_beta \in BOOLEAN, use_null_move \in BOOLEAN,
     lmr_min_depth \in 1..2, lmr_min_moves \in 1..2, lmr_reduction \in 1..2}

InitReduced ==
    /\ \E p \in ReducedStartPositions :
          /\ board = [p.bd EXCEPT !.moves_cache_max_entries = GameCacheMax]
          /\ pieces = p.ps
    /\ undo_stack = <<>>
    /\ before = <<>>
    /\ last = NoCall
    /\ NoGame

\* minimax.select_move(game, depth, use_lmr=True, ..., time_limit_ms=0)
SelectMoveReduced ==
    /\ search.calls = 0
    /\ Cardinality(OnBoardOf(board)) <= MaxSearched
    /\ \E depth \in 1..MaxDepth, options \in ReducedOptions :
       \E out \in {select_move(game, tt, depth, options, FALSE, 0, Timing(<<>>, <<>>))} :
          /\ Left_by(out)
          /\ search' = [op |-> "select_move", calls |-> MaxCalls, depth |-> depth,
                        options |-> options, use_iterative_deepening |-> FALSE,
                        time_limit_ms |-> 0, timing |-> Timing(<<>>, <<>>),
                        returned |-> out.returned, raised |-> out.raised, n |-> out.n,
                        deadline |-> out.deadline, searches |-> out.searches,
                        descents |-> out.descents, pre |-> Before]

\* minimax._alphabeta(board, depth, maximizing_color, -inf, inf, options, ...,
\* ply=0, deadline=None, cancel_event=None) with use_lmr set
AlphabetaReduced ==
    /\ search.calls = 0
    /\ Cardinality(OnBoardOf(board)) <= MaxSearched
    /\ \E depth \in 1..MaxReducedDepth, options \in ReducedOptions :
       \E out \in {_alphabeta(Searching(board, pieces, tt), depth, board.turn,
                              -inf, inf, options, 0, Timing(<<>>, <<>>))} :
          /\ Left_by(out)
          /\ search' = [op |-> "_alphabeta", calls |-> MaxCalls, depth |-> depth,
                        maximizing_color |-> board.turn, options |-> options,
                        score |-> out.score, raised |-> out.exc,
                        descents |-> out.descents, pre |-> Before]

NextReduced ==
    \/ SelectMoveReduced
    \/ AlphabetaReduced
    \/ GameReset
    \/ ClearTranspositionTable

ReducedSpec == InitReduced /\ [][NextReduced]_vars

\* C30: a search without deadline calls _alphabeta below itself only with a
\* depth smaller than the caller's, whether at full depth, reduced or after
\* a null move, and so never more plies below the root than the depth it
\* was asked for
C30_RecursionDepthDecreases ==
    (search.op \in {"select_move", "_alphabeta"} /\ search.raised = "")
        => \A call \in search.descents :
              /\ call.depth < call.caller
              /\ call.ply <= search.depth

\* the calls a search made of _alphabeta below a move of ordered_moves
MoveDescents == {call \in search.descents : call.kind \in {"full", "reduced"}}

\* the reduced score beat alpha at a maximizing node, beta at a minimizing one
Beats(call) ==
    IF call.at.maximizing THEN call.score > call.at.alpha ELSE call.score < call.at.beta

Reducible(call) ==
    /\ call.caller >= search.options.lmr_min_depth
    /\ call.at.index >= search.options.lmr_min_moves
    /\ ~call.at.capture
    /\ ~call.at.promote

\* what the first call below a move and the call after a reduced one have
\* in common, whatever the depth of the first
ReductionRules ==
    /\ \A call \in MoveDescents : (call.kind = "reduced") <=> Reducible(call)
    /\ \A call \in search.descents : call.kind \in {"full", "again"} => call.depth = call.caller - 1
    /\ \A call \in search.descents :
          call.kind = "returned"
              => (Beats(call) <=> [call EXCEPT !.kind = "again", !.depth = call.caller - 1]
                                      \in search.descents)
    /\ \A call \in search.descents :
          call.kind = "again"
              => \E first \in search.descents :
                    first.kind = "returned" /\ first.at = call.at /\ first.score = call.score
                    /\ first.ply = call.ply /\ first.caller = call.caller

\* C31: with use_lmr set, the first search below a move is reduced
\* exactly when depth >= lmr_min_depth, index >= lmr_min_moves and the move
\* neither captures nor promotes; a reduced search is made at depth
\* depth - 1 - lmr_reduction, and the move is searched again at depth - 1
\* exactly when the reduced score beat alpha (beta at a minimizing node)
C31_ReducedAtDepthLessReduction ==
    (search.op \in {"select_move", "_alphabeta"} /\ search.options.use_lmr)
        => /\ ReductionRules
           /\ \A call \in MoveDescents :
                 call.kind = "reduced"
                     => call.depth = call.caller - 1 - search.options.lmr_reduction

\* the calls a search made of _alphabeta after a null move
NullDescents == {call \in search.descents : call.kind = "null"}

\* C32: a search tries a null move only with use_null_move and
\* use_alpha_beta set, at a depth above null_move_reduction + 1, on a board
\* with more than endgame_max_pieces pieces and for a side that does not
\* have to capture
C32_NullMoveOnlyOutsideEndgame ==
    (search.op \in {"select_move", "_alphabeta"})
        => \A call \in NullDescents :
              /\ search.options.use_null_move
              /\ search.options.use_alpha_beta
              /\ call.caller > search.options.null_move_reduction + 1
              /\ call.at.pieces > search.options.endgame_max_pieces
              /\ ~call.at.capture

(* ---------------- searches with the endgame solver ---------------- *)
MaxEndgamePlies == 5

\* the boards the endgame solver is run on
EndgameStartPositions ==
    { \* 8x8 a king each, in opposite corners
      Position(8, WHITE, << K(7, 0, WHITE), K(0, 7, BLACK) >>),
      \* 8x8 a man each, two rows apart
      Position(8, WHITE, << M(4, 1, WHITE), M(2, 3, BLACK) >>),
      \* 8x8 a capture for White that leaves two pieces
      Position(8, WHITE, << M(5, 0, WHITE), M(4, 1, BLACK), M(0, 7, BLACK) >>),
      \* 8x8 neither side can move
      Position(8, WHITE, << M(0, 1, WHITE), M(7, 0, BLACK) >>) }

Tablebase(endgame_max_pieces, endgame_max_plies) ==
    [MinimaxOptions(TRUE, FALSE, FALSE, FALSE, FALSE) EXCEPT
        !.use_endgame_tablebase = TRUE, !.endgame_max_pieces = endgame_max_pieces,
        !.endgame_max_plies = endgame_max_plies]

\* options with use_endgame_tablebase set: the least values select_move
\* leaves endgame_max_pieces and endgame_max_plies at, the default
\* endgame_max_pieces with a ceiling up to MaxEndgamePlies
EndgameOptions ==
    {Tablebase(2, 2)}
    \cup {Tablebase(_DEFAULT_ENDGAME_MAX_PIECES, endgame_max_plies) :
          endgame_max_plies \in 2..MaxEndgamePlies}

\* search.memo is _ENDGAME_TABLEBASE
InitEndgame ==
    /\ \E p \in EndgameStartPositions :
          /\ board = [p.bd EXCEPT !.moves_cache_max_entries = GameCacheMax]
          /\ pieces = p.ps
    /\ undo_stack = <<>>
    /\ before = <<>>
    /\ last = NoCall
    /\ current_player = board.turn
    /\ winner = NoColor
    /\ move_history = <<>>
    /\ session = GameSession
    /\ undone = 0
    /\ tt = <<>>
    /\ search = [op |-> "none", calls |-> 0, memo |-> <<>>]
    /\ requests = <<>>

\* minimax._alphabeta(board, depth, maximizing_color, -inf, inf, options, ...,
\* ply=0, deadline=None, cancel_event=None) with use_endgame_tablebase set
EndgameAlphabeta ==
    /\ search.calls < MaxCalls
    /\ \E maximizing_color \in Colors, options \in EndgameOptions :
       \E out \in {_alphabeta([Searching(board, pieces, tt) EXCEPT !.memo = search.memo],
                              MaxDepth, maximizing_color, -inf, inf, options, 0,
                              Timing(<<>>, <<>>))} :
          /\ Left_by(out)
          /\ search' = [op |-> "_alphabeta", calls |-> search.calls + 1, depth |-> MaxDepth,
                        maximizing_color |-> maximizing_color, options |-> options,
                        score |-> out.score, raised |-> out.exc,
                        descents |-> out.descents, solves |-> out.solves,
                        memo |-> out.memo, pre |-> [Before EXCEPT !.game = None]]

\* board.make_move(piece, move) of a legal move between two searches
EndgameMakeMove ==
    /\ before = <<>>
    /\ \E pair \in PairsOf(getAllValidMoves(board, pieces, board.turn).moves) :
       \E made \in {make_move(board, pieces, pair[1], pair[2])} :
          /\ made.raised = ""
          /\ board' = made.bd
          /\ pieces' = Collect(made.ps, OnBoardOf(made.bd))
          /\ before' = Append(before, snapshot(board, pieces))
          /\ current_player' = made.bd.turn
          /\ UNCHANGED <<undo_stack, last, winner, move_history, session, undone, tt, search,
                         requests>>

NextEndgame ==
    \/ EndgameAlphabeta
    \/ EndgameMakeMove

EndgameSpec == InitEndgame /\ [][NextEndgame]_vars

\* the calls of _solve_endgame one call made of itself
Below(call) ==
    {c \in search.solves : c.ply = call.ply + 1 /\ call.id < c.id /\ c.id <= call.last}

\* C33: no call of _solve_endgame is made at a ply above endgame_max_plies;
\* a call at the ceiling calls no further and, the game not being over
\* there, returns what evaluate_board returns; a call on a position whose
\* (hash, perspective) is on the path of the search calls no further and,
\* below the ceiling, returns 0
C33_SolverBounded ==
    (search.op = "_alphabeta" /\ search.raised = "")
        => \A call \in search.solves :
              /\ call.ply <= search.options.endgame_max_plies
              /\ call.ply = search.options.endgame_max_plies
                    => /\ Below(call) = {}
                       /\ ~call.over => call.score = call.evaluation
              /\ call.on_path
                    => /\ Below(call) = {}
                       /\ ~call.over
                       /\ call.ply < search.options.endgame_max_plies => call.score = 0

\* a search that came to the ceiling on a position where the game is not
\* over, and below the ceiling to a position that is on its path
C33_Witness ==
    /\ search.op = "_alphabeta"
    /\ \E call \in search.solves :
          call.ply = search.options.endgame_max_plies /\ ~call.over /\ call.evaluation # 0
    /\ \E call \in search.solves :
          call.on_path /\ call.ply < search.options.endgame_max_plies
    /\ \E call \in search.solves : Below(call) # {}

\* C34: a search with _ENDGAME_TABLEBASE as earlier searches left it returns
\* what the same search returns with _ENDGAME_TABLEBASE empty
C34_MemoIsTransparent ==
    (search.op = "_alphabeta" /\ search.raised = "")
        => search.score = _alphabeta(Searching(search.pre.bd, search.pre.ps, search.pre.tt),
                                     search.depth, search.maximizing_color, -inf, inf,
                                     search.options, 0, Timing(<<>>, <<>>)).score

(* ---------------- the transposition table when it is full ---------------- *)
MaxTTEntries == 66

\* the key of the entry stored as the i-th
StoredKey(i) == tt_key({<<"position", i>>}, WHITE)

\* a table of n entries in the order they were stored, of depth 3 but for
\* those stored as the i-th for i in shallow, which are of depth 2 among the
\* first 64 and of depth 1 after them
FilledTable(n, shallow) ==
    [i \in 1..n |-> [key |-> StoredKey(i),
                     val |-> TTEntry(StoredKey(i),
                                     IF i \notin shallow THEN 3 ELSE IF i <= 64 THEN 2 ELSE 1,
                                     0, "EXACT", None)]]

\* where, counted from the oldest, a table has its shallow entries: among the
\* first, at the end of the 64 that _store_tt_entry looks at, and after them
ShallowPlaces == {1, 2, 63, 64, 65, 66}

\* the table one entry short of MaxTTEntries entries, and with that many
InitTable ==
    /\ \E p \in {Position(8, WHITE, << M(5, 0, WHITE), M(2, 1, BLACK) >>)} :
          /\ board = p.bd
          /\ pieces = p.ps
    /\ undo_stack = <<>>
    /\ before = <<>>
    /\ last = NoCall
    /\ current_player = board.turn
    /\ winner = NoColor
    /\ move_history = <<>>
    /\ session = GameSession
    /\ undone = 0
    /\ \E n \in {MaxTTEntries - 1, MaxTTEntries}, shallow \in SUBSET ShallowPlaces :
          tt = FilledTable(n, shallow)
    /\ search = NoSearch
    /\ requests = <<>>

\* _store_tt_entry(key, depth, score, alpha_orig, beta_orig, best_move) with
\* _MAX_TT_ENTRIES set to MaxTTEntries, for a key the table holds and for one
\* that is new to it
StoreTTEntry ==
    /\ search.calls < MaxCalls
    /\ \E i \in {1, 2, 64, 65, MaxTTEntries + 1 + search.calls}, depth \in 1..MaxDepth :
          /\ tt' = store_tt_entry(MaxTTEntries, tt, StoredKey(i), depth, 0, -inf, inf, None)
          /\ search' = [op |-> "_store_tt_entry", calls |-> search.calls + 1,
                        key |-> StoredKey(i), depth |-> depth, pre |-> Before]
          /\ UNCHANGED <<board, pieces>>
          /\ UNCHANGED searchVars

NextTable == StoreTTEntry

TableSpec == InitTable /\ [][NextTable]_vars

KeysOf(table) == {table[i].key : i \in DOMAIN table}

\* among the first 64 entries of a table, or all of them if it has fewer, the
\* place of the one of the least depth, the oldest of those of the least depth
Victim(table) ==
    CHOOSE i \in DOMAIN table :
        /\ i <= 64
        /\ \A j \in DOMAIN table :
              j <= 64 => \/ table[i].val.depth < table[j].val.depth
                         \/ (table[i].val.depth = table[j].val.depth /\ i <= j)

\* the entries of a table but for those of the keys, in their order
Without(table, keys) == SelectSeq(table, LAMBDA e : e.key \notin keys)

\* C35: after a store the table holds no more than its capacity; a store
\* that finds the table at its capacity takes one entry out of it, the one
\* of the least depth among the 64 oldest, the oldest of these, and leaves the
\* other entries as they are and in their order; a store that finds the
\* table below its capacity takes none out
C35_TableBounded ==
    /\ Len(tt) <= MaxTTEntries
    /\ search.op = "_store_tt_entry"
          => LET old == search.pre.tt
                 out == IF Len(old) >= MaxTTEntries THEN {old[Victim(old)].key} ELSE {}
             IN /\ KeysOf(tt) = (KeysOf(old) \ out) \cup {search.key}
                /\ Without(tt, {search.key}) = Without(old, out \cup {search.key})
                /\ DictGet(tt, search.key).depth = search.depth

\* a store that found the table full and took out an entry that was neither
\* the oldest nor the one stored, while a shallower entry stood after the 64
\* oldest
C35_Witness ==
    /\ search.op = "_store_tt_entry"
    /\ Len(search.pre.tt) = MaxTTEntries
    /\ Victim(search.pre.tt) > 1
    /\ search.pre.tt[Victim(search.pre.tt)].key # search.key
    /\ \E j \in DOMAIN search.pre.tt :
          j > 64 /\ search.pre.tt[j].val.depth < search.pre.tt[Victim(search.pre.tt)].val.depth

(* ---------------- _order_moves on the moves of a position ---------------- *)
\* the boards whose moves are ordered
OrderStartPositions == StartPositions \cup SearchStartPositions

\* use_move_ordering and deterministic_ordering set and not set
OrderOptions ==
    {[MinimaxOptions(TRUE, TRUE, use_move_ordering, TRUE, FALSE) EXCEPT
         !.deterministic_ordering = deterministic_ordering] :
     use_move_ordering \in BOOLEAN, deterministic_ordering \in BOOLEAN}

\* a move no position has
StrangeMove == [start |-> <<0, 0>>, steps |-> <<<<0, 0>>>>, captures |-> <<>>]

InitOrder ==
    /\ \E p \in OrderStartPositions : board = p.bd /\ pieces = p.ps
    /\ undo_stack = <<>>
    /\ before = <<>>
    /\ last = NoCall
    /\ NoGame

\* _order_moves(board.getAllValidMoves(color), board, options, tt_move, ...)
\* with no killer moves and empty history and butterfly tables
OrderMoves ==
    \E color \in Colors, options \in OrderOptions :
    \E moves_map \in {getAllValidMoves(board, pieces, color)} :
    \E tt_move \in {None, StrangeMove} \cup {pair[2] : pair \in PairsOf(moves_map.moves)} :
       /\ board' = moves_map.bd
       /\ search' = [op |-> "_order_moves", calls |-> 0, moves_map |-> moves_map.moves,
                     options |-> options, tt_move |-> tt_move,
                     ordered |-> _order_moves(moves_map.moves, moves_map.bd, pieces, options,
                                              tt_move),
                     pre |-> Before]
       /\ UNCHANGED <<pieces, tt>>
       /\ UNCHANGED searchVars

NextOrder == OrderMoves

OrderSpec == InitOrder /\ [][NextOrder]_vars

\* how often a sequence holds x
Count(s, x) == Cardinality({i \in DOMAIN s : s[i] = x})

\* C36: what _order_moves returns holds every (piece, move) of the map it was
\* given once and nothing else, and begins with the pair of tt_move when the
\* map has tt_move, whatever use_move_ordering and deterministic_ordering are
C36_PermutationWithTTMoveFirst ==
    search.op = "_order_moves"
        => LET given == PairsOf(search.moves_map)
           IN /\ Len(search.ordered) = Cardinality(given)
              /\ \A pair \in given : Count(search.ordered, pair) = 1
              /\ (\E pair \in given : pair[2] = search.tt_move)
                    => search.ordered[1][2] = search.tt_move

\* moves ordered with use_move_ordering set, for a tt_move that the ordering
\* without it puts neither first nor second
C36_Witness ==
    /\ search.op = "_order_moves"
    /\ search.options.use_move_ordering
    /\ Len(search.ordered) >= 3
    /\ search.ordered[1][2] = search.tt_move
    /\ \E i \in DOMAIN search.ordered :
          /\ i >= 3
          /\ _order_moves(search.moves_map, search.pre.bd, search.pre.ps, search.options,
                          None)[i][2] = search.tt_move

\* the key _order_moves sorts a pair by with use_move_ordering set
SortScore(pair) == _move_sort_score(search.pre.ps, pair[1], pair[2], search.pre.bd.boardSize)

\* C37: with use_move_ordering and deterministic_ordering set and no tt_move,
\* the pairs are returned in descending order of their score, those of equal
\* score in ascending order of _fallback_move_key
C37_TiesAscending ==
    (/\ search.op = "_order_moves"
     /\ search.options.use_move_ordering
     /\ search.options.deterministic_ordering
     /\ search.tt_move = None)
        => \A i, j \in DOMAIN search.ordered :
              i < j => \/ SortScore(search.ordered[i]) > SortScore(search.ordered[j])
                       \/ /\ SortScore(search.ordered[i]) = SortScore(search.ordered[j])
                          /\ \/ _fallback_move_key(search.ordered[i][2])
                                    = _fallback_move_key(search.ordered[j][2])
                             \/ tuple_less(_fallback_move_key(search.ordered[i][2]),
                                           _fallback_move_key(search.ordered[j][2]))

====
